---- MODULE Spec2Model ----
(***************************************************************************)
(* The per-destination-chain order pipeline of dln-taker: the Executor's   *)
(* dispatch with its filter chain, the UniversalProcessor state machine,   *)
(* the mempool service and the batch unlocker, for one destination chain.  *)
(***************************************************************************)
EXTENDS Integers, Sequences, FiniteSets, TLC

(***************************************************************************)
(* Bounds of the model: the orders the feed knows, and the number of       *)
(* events the feed delivers.                                               *)
(***************************************************************************)
NumOrders == 3

MaxFeed == 2

OrderIds == 1 .. NumOrders

(***************************************************************************)
(* Configuration.  The order payload is a function of the orderId (the id  *)
(* is the content hash of the order), so the give chain of an order is     *)
(* read off its id: orders 1 and 2 come from chain "A", order 3 from "C",  *)
(* order 4 from "B", and so on.  All chains are configured; the one bucket *)
(* holds a reserve token on "A", "B" and the destination "D", none on "C". *)
(***************************************************************************)
OrderGiveChains == <<"A", "A", "C", "B">>

giveChainId(o) == OrderGiveChains[((o - 1) % Len(OrderGiveChains)) + 1]

BucketChains == {"A", "B", "D"}

takeChainId == "D"

CreatedStatuses == {"Created", "ArchivalCreated"}

OrderInfoStatus ==
    {"Created", "ArchivalCreated", "Fulfilled", "ArchivalFulfilled",
     "Cancelled", "Other"}

\* IncomingOrderContext: the orderInfo (orderId, type) handed to process().
\* info tells the event objects of a scripted feed apart; the events of a
\* feed that may deliver anything all carry 0.
IncomingOrderContext == [orderId : OrderIds, type : OrderInfoStatus, info : {0}]

NoOrder == [orderId |-> 0, type |-> "none", info |-> 0]

(***************************************************************************)
(* Insertion-ordered Set<string> and Map<string, ...> of JavaScript.       *)
(***************************************************************************)
Range(q) == {q[i] : i \in 1 .. Len(q)}

SetAdd(q, x) == IF x \in Range(q) THEN q ELSE Append(q, x)

SetDelete(q, x) == SelectSeq(q, LAMBDA y : y # x)

MapSet(m, k, v) == [x \in (DOMAIN m) \cup {k} |-> IF x = k THEN v ELSE m[x]]

MapDelete(m, k) == [x \in (DOMAIN m) \ {k} |-> m[x]]

EmptyMap == [x \in {} |-> NoOrder]

VARIABLES
    isLocked,           \* UniversalProcessor.isLocked
    priorityQueue,      \* UniversalProcessor.priorityQueue (primary)
    queue,              \* UniversalProcessor.queue (secondary)
    incomingOrdersMap,  \* UniversalProcessor.incomingOrdersMap (pendingContext)
    running,            \* the activations of processOrder, each at an await
    mempool,            \* MempoolService: insertion-ordered orderId -> params
    batches,            \* BatchUnlocker: give chain -> ordered list of orderIds
    unlockSends,        \* BatchUnlocker: unlock transactions being sent
    takeFulfilled,      \* destination chain: the orders this taker has fulfilled
    handedLog,          \* history: give chain -> the orderIds handed to unlockOrder
    unlockTxLog,        \* history: the unlock transactions submitted, in order
    disabled,           \* ChainDefinition.disabled of the take chain
    definition,         \* ChainDefinition: chain and requiredConfirmationsThresholds
    usdAmountConfirmations, \* what getConfirmationRanges made of the definition
    constructorParams,  \* the params argument of UniversalProcessor's constructor
    thisParams,         \* UniversalProcessor.params once the constructor has run
    isInitialized,      \* Executor.isInitialized: init has called orderFeed.init
    initPc,             \* Executor.init: the chain and the step it is at
    initLog,            \* history: the steps of Executor.init that have completed
    strictCalls,        \* StrictProcessor: the calls of process, each at an await
    orderFulfilledMap,  \* context.orderFulfilledMap: orders reported as fulfilled
    executing,          \* Executor: executeOrder calls awaiting their filters
    filteredOff,        \* Executor log: orders "filtered off, dropping"
    executorLog,        \* Executor history: what became of the feed's events
    feedCount,          \* number of events the feed has delivered so far
    script,             \* the events a scripted feed delivers (<<>>: any events)
    startLog            \* scripted runs: the processOrder calls, in order

vars ==
    <<isLocked, priorityQueue, queue, incomingOrdersMap, running, mempool,
      batches, unlockSends, takeFulfilled, handedLog, unlockTxLog,
      executing, filteredOff, executorLog, feedCount, script, startLog,
      disabled, definition, usdAmountConfirmations, constructorParams,
      thisParams, isInitialized, initPc, initLog, strictCalls,
      orderFulfilledMap>>

\* the StrictProcessor and the context it reads
strictVars == <<strictCalls, orderFulfilledMap>>

\* Executor.init: where it is, and what it has done
initVars == <<isInitialized, initPc, initLog>>

\* what the configuration and Executor.init have fixed before the feed starts
startupVars ==
    <<disabled, definition, usdAmountConfirmations, constructorParams, thisParams,
      initVars>>

\* The processor's state as one record, so that a handler is a function on it.
State ==
    [isLocked |-> isLocked, priorityQueue |-> priorityQueue, queue |-> queue,
     incomingOrdersMap |-> incomingOrdersMap, running |-> running,
     mempool |-> mempool, batches |-> batches, unlockSends |-> unlockSends,
     takeFulfilled |-> takeFulfilled, handedLog |-> handedLog,
     unlockTxLog |-> unlockTxLog]

Install(s) ==
    /\ isLocked' = s.isLocked
    /\ priorityQueue' = s.priorityQueue
    /\ queue' = s.queue
    /\ incomingOrdersMap' = s.incomingOrdersMap
    /\ running' = s.running
    /\ mempool' = s.mempool
    /\ batches' = s.batches
    /\ unlockSends' = s.unlockSends
    /\ takeFulfilled' = s.takeFulfilled
    /\ handedLog' = s.handedLog
    /\ unlockTxLog' = s.unlockTxLog

RemoveAt(q, i) == SubSeq(q, 1, i - 1) \o SubSeq(q, i + 1, Len(q))

(***************************************************************************)
(* BatchUnlocker.  unlockOrder appends (orderId, order) to the batch of    *)
(* the order's give chain; a batch that has reached batchUnlockSize is     *)
(* drained of its first batchUnlockSize entries, which are submitted as    *)
(* one unlock transaction.  `waiter` names the caller awaiting the call:   *)
(* processOrder, or process (for a Fulfilled / ArchivalFulfilled event).   *)
(***************************************************************************)
batchUnlockSize == 2

drainBatch(s, c, waiter) ==
    LET b == s.batches[c]
    IN  [s EXCEPT
            !.batches[c] = SubSeq(b, batchUnlockSize + 1, Len(b)),
            !.unlockSends =
                Append(@, [chain |-> c, ids |-> SubSeq(b, 1, batchUnlockSize),
                           waiter |-> waiter, log |-> Len(s.unlockTxLog) + 1]),
            !.unlockTxLog =
                Append(@, [chain |-> c, ids |-> SubSeq(b, 1, batchUnlockSize),
                           result |-> "pending"])]

\* flushes one hand-over late: the batch must exceed batchUnlockSize
unlockOrder_Late(s, orderId, waiter) ==
    LET c == giveChainId(orderId)
        s1 == [s EXCEPT !.batches[c] = Append(@, orderId),
                        !.handedLog[c] = Append(@, orderId)]
    IN  IF Len(s1.batches[c]) > batchUnlockSize
        THEN drainBatch(s1, c, waiter)
        ELSE s1

\* flushes whatever the batch holds on every hand-over
unlockOrder_Eager(s, orderId, waiter) ==
    LET c == giveChainId(orderId)
        s1 == [s EXCEPT !.batches[c] = Append(@, orderId),
                        !.handedLog[c] = Append(@, orderId)]
        b == s1.batches[c]
    IN  [s1 EXCEPT
            !.batches[c] = <<>>,
            !.unlockSends =
                Append(@, [chain |-> c, ids |-> b, waiter |-> waiter,
                           log |-> Len(s.unlockTxLog) + 1]),
            !.unlockTxLog = Append(@, [chain |-> c, ids |-> b, result |-> "pending"])]

unlockOrder(s, orderId, waiter) ==
    LET c == giveChainId(orderId)
        s1 == [s EXCEPT !.batches[c] = Append(@, orderId),
                        !.handedLog[c] = Append(@, orderId)]
    IN  IF Len(s1.batches[c]) >= batchUnlockSize
        THEN drainBatch(s1, c, waiter)
        ELSE s1

\* The unlock transaction unlockSends[i] was sent, or its send failed: on
\* failure the drained entries go back to the front of their batch.
\* puts the entries of a failed send back at the end of the batch
sendUnlockResult_Append(s, i, ok) ==
    LET tx == s.unlockSends[i]
        s1 == [s EXCEPT !.unlockSends = RemoveAt(@, i),
                        !.unlockTxLog[tx.log].result = IF ok THEN "sent" ELSE "failed"]
    IN  IF ok
        THEN s1
        ELSE [s1 EXCEPT !.batches[tx.chain] = @ \o tx.ids]

sendUnlockResult(s, i, ok) ==
    LET tx == s.unlockSends[i]
        s1 == [s EXCEPT !.unlockSends = RemoveAt(@, i),
                        !.unlockTxLog[tx.log].result = IF ok THEN "sent" ELSE "failed"]
    IN  IF ok
        THEN s1
        ELSE [s1 EXCEPT !.batches[tx.chain] = tx.ids \o @]

(***************************************************************************)
(* MempoolService: an insertion-ordered map orderId -> params.             *)
(***************************************************************************)
mempoolKeys(m) == {m[i].orderId : i \in 1 .. Len(m)}

mempoolAddOrder(m, params) ==
    IF params.orderId \in mempoolKeys(m)
    THEN [i \in 1 .. Len(m) |->
             IF m[i].orderId = params.orderId THEN params ELSE m[i]]
    ELSE Append(m, params)

mempoolDelete(m, orderId) == SelectSeq(m, LAMBDA e : e.orderId # orderId)

(***************************************************************************)
(* UniversalProcessor.                                                     *)
(***************************************************************************)
\* An activation of processOrder(params): `pc` names the await it is
\* suspended at ("end": it has returned or thrown and the continuation of
\* tryProcess has not run yet).  The other fields record what this attempt
\* has done so far.
Activation(params, pc, outcome) ==
    [params |-> params, pc |-> pc, outcome |-> outcome, iteration |-> 0,
     built |-> FALSE, sendCalls |-> 0, txSent |-> 0, waited |-> FALSE,
     handed |-> FALSE, deferred |-> FALSE]

Ended(a, outcome) == [a EXCEPT !.pc = "end", !.outcome = outcome]

\* bucket.findFirstToken(give chain) and findFirstToken(take chain) defined
hasBucket(orderId) ==
    giveChainId(orderId) \in BucketChains /\ takeChainId \in BucketChains

\* processOrder up to its first await.
processOrderStart(s, params) ==
    IF ~hasBucket(params.orderId)
    THEN [s EXCEPT !.running =
             Append(@, Activation(params, "end", "NoReserveCoverage"))]
    ELSE [s EXCEPT !.running =
             Append(@, Activation(params, "getTakeOrderStatus", "none"))]

\* tryProcess without the `if (this.isLocked)` branch
tryProcess_IgnoreLock(s, params) ==
    processOrderStart([s EXCEPT !.isLocked = TRUE], params)

\* tryProcess that returns without enqueueing when the processor is busy
tryProcess_DropBusy(s, params) ==
    IF s.isLocked
    THEN s
    ELSE processOrderStart([s EXCEPT !.isLocked = TRUE], params)

tryProcess(s, params) ==
    IF s.isLocked
    THEN CASE params.type = "ArchivalCreated" ->
                [s EXCEPT !.queue = SetAdd(@, params.orderId),
                          !.incomingOrdersMap = MapSet(@, params.orderId, params)]
           [] params.type = "Created" ->
                [s EXCEPT !.priorityQueue = SetAdd(@, params.orderId),
                          !.incomingOrdersMap = MapSet(@, params.orderId, params)]
           [] OTHER -> s
    ELSE processOrderStart([s EXCEPT !.isLocked = TRUE], params)

\* the first orderId in insertion order, whichever queue holds it
nextOrderId_Fifo(s) ==
    IF s.queue # <<>> THEN Head(s.queue)
    ELSE IF s.priorityQueue # <<>> THEN Head(s.priorityQueue)
    ELSE 0

\* pickNextOrder looking for the next orderId in priorityQueue only
nextOrderId_PrimaryOnly(s) ==
    IF s.priorityQueue # <<>> THEN Head(s.priorityQueue) ELSE 0

nextOrderId(s) ==
    IF s.priorityQueue # <<>> THEN Head(s.priorityQueue)
    ELSE IF s.queue # <<>> THEN Head(s.queue)
    ELSE 0

\* pickNextOrder deleting the orderId only from the queue it was found in
pickNextOrder_OneQueue(s) ==
    LET id == nextOrderId(s)
    IN  IF id = 0
        THEN [order |-> NoOrder, state |-> s]
        ELSE [order |-> IF id \in DOMAIN s.incomingOrdersMap
                        THEN s.incomingOrdersMap[id] ELSE NoOrder,
              state |-> [s EXCEPT
                            !.priorityQueue = SetDelete(@, id),
                            !.queue = IF id \in Range(s.priorityQueue)
                                      THEN @ ELSE SetDelete(@, id),
                            !.incomingOrdersMap = MapDelete(@, id)]]

\* pickNextOrder leaving the picked order's context in incomingOrdersMap
pickNextOrder_KeepsContext(s) ==
    LET id == nextOrderId(s)
    IN  IF id = 0
        THEN [order |-> NoOrder, state |-> s]
        ELSE [order |-> IF id \in DOMAIN s.incomingOrdersMap
                        THEN s.incomingOrdersMap[id] ELSE NoOrder,
              state |-> [s EXCEPT
                            !.priorityQueue = SetDelete(@, id),
                            !.queue = SetDelete(@, id)]]

\* pickNextOrder: the picked params (NoOrder when there is none) and the
\* state with the picked orderId forgotten.
pickNextOrder(s) ==
    LET id == nextOrderId(s)
    IN  IF id = 0
        THEN [order |-> NoOrder, state |-> s]
        ELSE [order |-> IF id \in DOMAIN s.incomingOrdersMap
                        THEN s.incomingOrdersMap[id] ELSE NoOrder,
              state |-> [s EXCEPT
                            !.priorityQueue = SetDelete(@, id),
                            !.queue = SetDelete(@, id),
                            !.incomingOrdersMap = MapDelete(@, id)]]

\* tryProcess without the try / catch around processOrder: an error leaves
\* tryProcess before `this.isLocked = false`
tryProcessResume_NoCatch(s, i) ==
    LET s1 == [s EXCEPT !.running = RemoveAt(@, i), !.isLocked = FALSE]
        pick == pickNextOrder(s1)
    IN  IF s.running[i].outcome \notin
              {"Unlocked", "Unprofitable", "InsufficientReserve", "FulfillSendFailed"}
        THEN [s EXCEPT !.running = RemoveAt(@, i)]
        ELSE IF pick.order # NoOrder
        THEN tryProcess(pick.state, pick.order)
        ELSE pick.state

\* tryProcess without the forward to the next order
tryProcessResume_NoNext(s, i) ==
    [s EXCEPT !.running = RemoveAt(@, i), !.isLocked = FALSE]

\* The continuation of tryProcess after `await this.processOrder(params)`.
tryProcessResume(s, i) ==
    LET s1 == [s EXCEPT !.running = RemoveAt(@, i), !.isLocked = FALSE]
        pick == pickNextOrder(s1)
    IN  IF pick.order # NoOrder
        THEN tryProcess(pick.state, pick.order)
        ELSE pick.state

\* a clean-up that also gives up the processOrder call of the order
forget_AbortsInFlight(s, orderId) ==
    LET others == SelectSeq(s.running, LAMBDA a : a.params.orderId # orderId)
    IN  [s EXCEPT !.queue = SetDelete(@, orderId),
                  !.priorityQueue = SetDelete(@, orderId),
                  !.incomingOrdersMap = MapDelete(@, orderId),
                  !.mempool = mempoolDelete(@, orderId),
                  !.running = others,
                  !.isLocked = others # <<>>]

\* the clean-up without mempoolService.delete
forget_KeepsMempool(s, orderId) ==
    [s EXCEPT !.queue = SetDelete(@, orderId),
              !.priorityQueue = SetDelete(@, orderId),
              !.incomingOrdersMap = MapDelete(@, orderId)]

forget(s, orderId) ==
    [s EXCEPT !.queue = SetDelete(@, orderId),
              !.priorityQueue = SetDelete(@, orderId),
              !.incomingOrdersMap = MapDelete(@, orderId),
              !.mempool = mempoolDelete(@, orderId)]

\* process with ArchivalFulfilled handled as Fulfilled is, and Other as
\* Cancelled is
process_ForgetsAlways(s, params) ==
    CASE params.type \in CreatedStatuses -> tryProcess(s, params)
      [] params.type \in {"ArchivalFulfilled", "Fulfilled"} ->
            unlockOrder(forget(s, params.orderId), params.orderId, "process")
      [] OTHER -> forget(s, params.orderId)

\* process without the Cancelled case: the event falls to the default
process_IgnoresCancelled(s, params) ==
    CASE params.type \in CreatedStatuses -> tryProcess(s, params)
      [] params.type = "ArchivalFulfilled" ->
            unlockOrder(s, params.orderId, "process")
      [] params.type = "Fulfilled" ->
            unlockOrder(forget(s, params.orderId), params.orderId, "process")
      [] OTHER -> s

process(s, params) ==
    CASE params.type \in CreatedStatuses -> tryProcess(s, params)
      [] params.type = "ArchivalFulfilled" ->
            unlockOrder(s, params.orderId, "process")
      [] params.type = "Cancelled" -> forget(s, params.orderId)
      [] params.type = "Fulfilled" ->
            unlockOrder(forget(s, params.orderId), params.orderId, "process")
      [] OTHER -> s

\* MempoolService timer: process(params) once per entry, in insertion order.
RECURSIVE mempoolProcess(_, _)
mempoolProcess(s, entries) ==
    IF entries = <<>>
    THEN s
    ELSE mempoolProcess(process(s, Head(entries)), Tail(entries))

(***************************************************************************)
(* processOrder, one step per await.  Every awaited external call may      *)
(* reject ("throw"); what it returns is the environment's choice.          *)
(***************************************************************************)
TakeOrderStatuses ==
    {"NotSet", "undefined", "Fulfilled", "SentUnlock", "SentCancel", "throw"}

GiveOrderStatuses == {"Created", "undefined", "Fulfilled", "throw"}

\* requiredReserveDstAmount as calculateExpectedTakeAmount returns it
requiredReserveDstAmount(orderId) == IF orderId % 2 = 1 THEN 1 ELSE 2

Balances == {0, 1, 2}

\* the bound of waitIsOrderFulfilled's polling loop
limit == 10

SetAct(s, i, a) == [s EXCEPT !.running[i] = a]

\* takeOrderStatusStep that goes on whatever status the take side reports
takeOrderStatusStep_Accepts(s, i, status) ==
    LET a == s.running[i]
    IN  IF status = "throw" THEN SetAct(s, i, Ended(a, "RpcError"))
        ELSE SetAct(s, i, [a EXCEPT !.pc = "getGiveOrderStatus"])

\* `await client.getTakeOrderStatus(...)` returned
takeOrderStatusStep(s, i, status) ==
    LET a == s.running[i]
    IN  IF status = "throw" THEN SetAct(s, i, Ended(a, "RpcError"))
        ELSE IF status # "NotSet" /\ status # "undefined"
        THEN SetAct(s, i, Ended(a, "AlreadyFulfilled"))
        ELSE SetAct(s, i, [a EXCEPT !.pc = "getGiveOrderStatus"])

\* giveOrderStatusStep that goes on whatever status the give side reports
giveOrderStatusStep_Accepts(s, i, status) ==
    LET a == s.running[i]
    IN  IF status = "throw" THEN SetAct(s, i, Ended(a, "RpcError"))
        ELSE SetAct(s, i, [a EXCEPT !.pc = "calculateExpectedTakeAmount"])

\* `await client.getGiveOrderStatus(...)` returned
giveOrderStatusStep(s, i, status) ==
    LET a == s.running[i]
    IN  IF status = "throw" THEN SetAct(s, i, Ended(a, "RpcError"))
        ELSE IF status # "Created"
        THEN SetAct(s, i, Ended(a, "NotCreatedOnSource"))
        ELSE SetAct(s, i, [a EXCEPT !.pc = "calculateExpectedTakeAmount"])

deferToMempool(s, i, outcome) ==
    LET a == s.running[i]
    IN  [s EXCEPT
            !.mempool = mempoolAddOrder(@, a.params),
            !.running[i] = Ended([a EXCEPT !.deferred = TRUE], outcome)]

\* calculateStep without the `return` after mempoolService.addOrder
calculateStep_NoReturn(s, i, result) ==
    LET a == s.running[i]
    IN  IF result = "throw" THEN SetAct(s, i, Ended(a, "RpcError"))
        ELSE IF result = "unprofitable"
        THEN [s EXCEPT
                !.mempool = mempoolAddOrder(@, a.params),
                !.running[i] = [a EXCEPT !.deferred = TRUE, !.pc = "getBalance"]]
        ELSE SetAct(s, i, [a EXCEPT !.pc = "getBalance"])

\* `await calculateExpectedTakeAmount(...)` returned
calculateStep(s, i, result) ==
    LET a == s.running[i]
    IN  IF result = "throw" THEN SetAct(s, i, Ended(a, "RpcError"))
        ELSE IF result = "unprofitable"
        THEN deferToMempool(s, i, "Unprofitable")
        ELSE SetAct(s, i, [a EXCEPT !.pc = "getBalance"])

\* `await fulfullProvider.getBalance(reserveDstToken)` returned `balance`
\* (-1: the call rejected)
getBalanceStep(s, i, balance) ==
    LET a == s.running[i]
    IN  IF balance < 0 THEN SetAct(s, i, Ended(a, "RpcError"))
        ELSE IF balance < requiredReserveDstAmount(a.params.orderId)
        THEN deferToMempool(s, i, "InsufficientReserve")
        ELSE SetAct(s, i, [a EXCEPT !.pc = "createOrderFullfillTx"])

\* `await this.createOrderFullfillTx(...)` returned
createOrderFullfillTxStep(s, i, ok) ==
    LET a == s.running[i]
    IN  IF ~ok THEN SetAct(s, i, Ended(a, "RpcError"))
        ELSE SetAct(s, i, [a EXCEPT !.built = TRUE, !.pc = "sendTransaction",
                                    !.sendCalls = @ + 1])

\* sendTransactionStep whose catch block does not return
sendTransactionStep_NoReturn(s, i, ok) ==
    LET a == s.running[i]
    IN  IF ~ok
        THEN [s EXCEPT
                !.mempool = mempoolAddOrder(@, a.params),
                !.running[i] = [a EXCEPT !.deferred = TRUE, !.waited = TRUE,
                                         !.pc = "waitIsOrderFulfilled"]]
        ELSE [s EXCEPT
                !.takeFulfilled = @ \cup {a.params.orderId},
                !.running[i] = [a EXCEPT !.txSent = @ + 1, !.waited = TRUE,
                                         !.pc = "waitIsOrderFulfilled"]]

\* `await fulfullProvider.sendTransaction(fulfillTx.tx)` returned or threw
sendTransactionStep(s, i, ok) ==
    LET a == s.running[i]
    IN  IF ~ok
        THEN deferToMempool(s, i, "FulfillSendFailed")
        ELSE [s EXCEPT
                !.takeFulfilled = @ \cup {a.params.orderId},
                !.running[i] = [a EXCEPT !.txSent = @ + 1, !.waited = TRUE,
                                         !.pc = "waitIsOrderFulfilled"]]

\* the hand-over `await this.batchUnlocker.unlockOrder(orderId, order, context)`
handToUnlocker(s, i) ==
    LET a == s.running[i]
        s1 == SetAct(s, i, [a EXCEPT !.handed = TRUE, !.pc = "unlockOrder"])
    IN  unlockOrder(s1, a.params.orderId, "processOrder")

\* waitIsOrderFulfilled that returns at the limit instead of throwing
waitIsOrderFulfilledStep_ReturnsAtLimit(s, i, fulfilled) ==
    LET a == s.running[i]
    IN  IF fulfilled \/ a.iteration = limit THEN handToUnlocker(s, i)
        ELSE SetAct(s, i, [a EXCEPT !.iteration = @ + 1])

\* a poll of waitIsOrderFulfilled returned: Fulfilled ends the wait, and
\* the limit-th poll without it raises
waitIsOrderFulfilledStep(s, i, fulfilled) ==
    LET a == s.running[i]
    IN  IF fulfilled THEN handToUnlocker(s, i)
        ELSE IF a.iteration = limit
        THEN SetAct(s, i, Ended(a, "FulfillmentNotObserved"))
        ELSE SetAct(s, i, [a EXCEPT !.iteration = @ + 1])

\* unlockOrder has returned to processOrder, which returns
unlockOrderReturn(s, i) == SetAct(s, i, Ended(s.running[i], "Unlocked"))

(***************************************************************************)
(* UniversalProcessor's constructor.  params is a Partial: a key may be    *)
(* missing, and a key that is there holds a number, NaN or undefined.      *)
(***************************************************************************)
Num(n) == [kind |-> "number", value |-> n]

NaN == [kind |-> "NaN", value |-> 0]

Undefined == [kind |-> "undefined", value |-> 0]

\* the relational operators of the language: false when an operand is NaN
Greater(x, n) == x.kind = "number" /\ x.value > n

Less(x, n) == x.kind = "number" /\ x.value < n

ParamKeys == {"minProfitabilityBps", "mempoolInterval", "batchUnlockSize"}

\* private params = {minProfitabilityBps: 4, mempoolInterval: 60, batchUnlockSize: 10}
defaultParams ==
    [minProfitabilityBps |-> Num(4), mempoolInterval |-> Num(60),
     batchUnlockSize |-> Num(10)]

\* Object.assign(target, source): every own key of source is copied,
\* whatever its value
ObjectAssign(target, source) ==
    [key \in DOMAIN target \cup DOMAIN source |->
        IF key \in DOMAIN source THEN source[key] ELSE target[key]]

\* params?.batchUnlockSize
batchUnlockSizeOf(params) ==
    IF "batchUnlockSize" \in DOMAIN params THEN params.batchUnlockSize ELSE Undefined

\* the constructor: it throws, or leaves this.params assigned
constructor(params) ==
    IF /\ batchUnlockSizeOf(params) # Undefined
       /\ \/ Greater(batchUnlockSizeOf(params), 10)
          \/ Less(batchUnlockSizeOf(params), 1)
    THEN [constructed |-> TRUE, threw |-> TRUE, params |-> defaultParams]
    ELSE [constructed |-> TRUE, threw |-> FALSE,
          params |-> ObjectAssign(defaultParams, params)]

\* the arguments the constructor is given
BatchUnlockSizes == {Num(n) : n \in -1 .. 12} \cup {NaN, Undefined}

ConstructorParams ==
    UNION {{params \in [keys -> BatchUnlockSizes \cup {Num(4), Num(60)}] :
                /\ "batchUnlockSize" \in keys =>
                      params.batchUnlockSize \in BatchUnlockSizes
                /\ "minProfitabilityBps" \in keys =>
                      params.minProfitabilityBps = Num(4)
                /\ "mempoolInterval" \in keys =>
                      params.mempoolInterval = Num(60)} :
           keys \in SUBSET ParamKeys}

(***************************************************************************)
(* The state machine.                                                      *)
(***************************************************************************)
InitFields ==
    /\ strictCalls = <<>>
    /\ orderFulfilledMap = {}
    /\ isLocked = FALSE
    /\ priorityQueue = <<>>
    /\ queue = <<>>
    /\ incomingOrdersMap = EmptyMap
    /\ running = <<>>
    /\ mempool = <<>>
    /\ batches = [c \in Range(OrderGiveChains) |-> <<>>]
    /\ unlockSends = <<>>
    /\ handedLog = [c \in Range(OrderGiveChains) |-> <<>>]
    /\ unlockTxLog = <<>>
    /\ executing = <<>>
    /\ filteredOff = {}
    /\ executorLog = <<>>
    /\ takeFulfilled = {}
    /\ feedCount = 0
    /\ startLog = <<>>

(***************************************************************************)
(* Executor.init: for each chain of the configuration, in order, the       *)
(* supported-chain check, the client set-up with the address lookup table  *)
(* (Solana), the processor initializer (constructor and init, with the     *)
(* token approvals), the filter initializers and getConfirmationRanges;    *)
(* then orderFeed.init.  A step that throws or rejects ends init.          *)
(***************************************************************************)
configChains == <<"A", "B", "C", "D">>

\* the chain of the configuration that is ChainId.Solana
Solana == "C"

initSteps(chain) ==
    IF chain = Solana
    THEN <<"SupportedChain", "initForFulfillPreswap", "processorInitializer",
           "filterInitializers", "getConfirmationRanges">>
    ELSE <<"SupportedChain", "processorInitializer", "filterInitializers",
           "getConfirmationRanges">>

Stopped(step) == [chain |-> 0, index |-> 0, step |-> step]

InitAt(chain, index) ==
    [chain |-> chain, index |-> index, step |-> initSteps(configChains[chain])[index]]

\* init going on although a step failed
initStep_GoesOn(st, ok) ==
    IF st.initPc.step = "orderFeed.init"
    THEN [st EXCEPT !.isInitialized = TRUE, !.initPc = Stopped("initialized")]
    ELSE LET chain == st.initPc.chain
             index == st.initPc.index
             log == IF ok
                    THEN Append(st.initLog, <<configChains[chain], st.initPc.step>>)
                    ELSE st.initLog
         IN  IF index < Len(initSteps(configChains[chain]))
             THEN [st EXCEPT !.initLog = log, !.initPc = InitAt(chain, index + 1)]
             ELSE IF chain < Len(configChains)
             THEN [st EXCEPT !.initLog = log, !.initPc = InitAt(chain + 1, 1)]
             ELSE [st EXCEPT !.initLog = log, !.initPc = Stopped("orderFeed.init")]

\* one step of init: it completes (ok) or throws
initStep(st, ok) ==
    IF ~ok
    THEN [st EXCEPT !.initPc = Stopped("failed")]
    ELSE IF st.initPc.step = "orderFeed.init"
    THEN [st EXCEPT !.isInitialized = TRUE, !.initPc = Stopped("initialized")]
    ELSE LET chain == st.initPc.chain
             index == st.initPc.index
             log == Append(st.initLog, <<configChains[chain], st.initPc.step>>)
         IN  IF index < Len(initSteps(configChains[chain]))
             THEN [st EXCEPT !.initLog = log, !.initPc = InitAt(chain, index + 1)]
             ELSE IF chain < Len(configChains)
             THEN [st EXCEPT !.initLog = log, !.initPc = InitAt(chain + 1, 1)]
             ELSE [st EXCEPT !.initLog = log, !.initPc = Stopped("orderFeed.init")]

InitState == [isInitialized |-> isInitialized, initPc |-> initPc, initLog |-> initLog]

\* init from its first step to orderFeed.init with no step failing
RECURSIVE initRun(_)
initRun(st) ==
    IF st.initPc.step = "initialized" THEN st ELSE initRun(initStep(st, TRUE))

InitNotStarted ==
    /\ isInitialized = FALSE
    /\ initPc = InitAt(1, 1)
    /\ initLog = <<>>

\* init has completed
InitDone ==
    LET st == initRun([isInitialized |-> FALSE, initPc |-> InitAt(1, 1), initLog |-> <<>>])
    IN  /\ isInitialized = st.isInitialized
        /\ initPc = st.initPc
        /\ initLog = st.initLog

\* Executor.init has run: the chain's definition has no thresholds, and
\* getConfirmationRanges returned no ranges
InitValidated ==
    /\ definition = [chain |-> "Polygon", requiredConfirmationsThresholds |-> <<>>]
    /\ usdAmountConfirmations = [called |-> TRUE, threw |-> FALSE, ranges |-> <<>>]
    /\ constructorParams = [batchUnlockSize |-> Num(batchUnlockSize)]
    /\ thisParams = constructor(constructorParams)
    /\ InitDone

\* the take chain is not disabled
InitProcessor == InitFields /\ disabled = FALSE /\ InitValidated

Init == InitProcessor /\ script = <<>>

At(pc) == {i \in 1 .. Len(running) : running[i].pc = pc}

\* The Executor hands an event to the processor (takeChain.orderProcessor.process).
Deliver(params) ==
    /\ Install(process(State, params))
    /\ feedCount' = feedCount + 1

Process ==
    /\ script = <<>>
    /\ feedCount < MaxFeed
    /\ \E params \in IncomingOrderContext : Deliver(params)
    /\ UNCHANGED <<executing, filteredOff, executorLog,
                   script, startupVars, strictVars, startLog>>

\* The mempool timer fires.
MempoolTick ==
    /\ script = <<>>
    /\ Install(mempoolProcess(State, mempool))
    /\ UNCHANGED <<executing, filteredOff, executorLog,
                   feedCount, script, startupVars, strictVars, startLog>>

GetTakeOrderStatus ==
    \E i \in At("getTakeOrderStatus"), status \in TakeOrderStatuses :
        /\ Install(takeOrderStatusStep(State, i, status))
        /\ UNCHANGED <<executing, filteredOff, executorLog,
                       feedCount, script, startupVars, strictVars, startLog>>

GetGiveOrderStatus ==
    \E i \in At("getGiveOrderStatus"), status \in GiveOrderStatuses :
        /\ Install(giveOrderStatusStep(State, i, status))
        /\ UNCHANGED <<executing, filteredOff, executorLog,
                       feedCount, script, startupVars, strictVars, startLog>>

CalculateExpectedTakeAmount ==
    \E i \in At("calculateExpectedTakeAmount"),
       result \in {"profitable", "unprofitable", "throw"} :
        /\ Install(calculateStep(State, i, result))
        /\ UNCHANGED <<executing, filteredOff, executorLog,
                       feedCount, script, startupVars, strictVars, startLog>>

GetBalance ==
    \E i \in At("getBalance"), balance \in Balances \cup {-1} :
        /\ Install(getBalanceStep(State, i, balance))
        /\ UNCHANGED <<executing, filteredOff, executorLog,
                       feedCount, script, startupVars, strictVars, startLog>>

CreateOrderFullfillTx ==
    \E i \in At("createOrderFullfillTx"), ok \in BOOLEAN :
        /\ Install(createOrderFullfillTxStep(State, i, ok))
        /\ UNCHANGED <<executing, filteredOff, executorLog,
                       feedCount, script, startupVars, strictVars, startLog>>

\* The destination contract fulfills an order once: a fulfill transaction for
\* an order that is fulfilled already reverts, and its send fails.
SendTransaction ==
    \E i \in At("sendTransaction"), ok \in BOOLEAN :
        /\ ok => running[i].params.orderId \notin takeFulfilled
        /\ Install(sendTransactionStep(State, i, ok))
        /\ UNCHANGED <<executing, filteredOff, executorLog,
                       feedCount, script, startupVars, strictVars, startLog>>

WaitIsOrderFulfilled ==
    \E i \in At("waitIsOrderFulfilled"), fulfilled \in BOOLEAN :
        /\ Install(waitIsOrderFulfilledStep(State, i, fulfilled))
        /\ UNCHANGED <<executing, filteredOff, executorLog,
                       feedCount, script, startupVars, strictVars, startLog>>

\* unlockOrder resolves once no unlock transaction of this call is in flight
UnlockOrderReturn ==
    \E i \in At("unlockOrder") :
        /\ \A k \in 1 .. Len(unlockSends) : unlockSends[k].waiter # "processOrder"
        /\ Install(unlockOrderReturn(State, i))
        /\ UNCHANGED <<executing, filteredOff, executorLog,
                       feedCount, script, startupVars, strictVars, startLog>>

Resume(i) == Install(tryProcessResume(State, i))

TryProcessResume ==
    /\ script = <<>>
    /\ \E i \in At("end") : Resume(i)
    /\ UNCHANGED <<executing, filteredOff, executorLog,
                   feedCount, script, startupVars, strictVars, startLog>>

SendUnlock ==
    \E i \in 1 .. Len(unlockSends), ok \in BOOLEAN :
        /\ Install(sendUnlockResult(State, i, ok))
        /\ UNCHANGED <<executing, filteredOff, executorLog,
                       feedCount, script, startupVars, strictVars, startLog>>

Next ==
    \/ Process
    \/ MempoolTick
    \/ GetTakeOrderStatus
    \/ GetGiveOrderStatus
    \/ CalculateExpectedTakeAmount
    \/ GetBalance
    \/ CreateOrderFullfillTx
    \/ SendTransaction
    \/ WaitIsOrderFulfilled
    \/ UnlockOrderReturn
    \/ TryProcessResume
    \/ SendUnlock

Spec == Init /\ [][Next]_vars

\* The mempool timer keeps firing, every awaited call of processOrder returns
\* or throws, every unlock send ends, and a continuation that is ready runs.
Fairness ==
    /\ WF_vars(MempoolTick)
    /\ WF_vars(GetTakeOrderStatus)
    /\ WF_vars(GetGiveOrderStatus)
    /\ WF_vars(CalculateExpectedTakeAmount)
    /\ WF_vars(GetBalance)
    /\ WF_vars(CreateOrderFullfillTx)
    /\ WF_vars(SendTransaction)
    /\ WF_vars(WaitIsOrderFulfilled)
    /\ WF_vars(UnlockOrderReturn)
    /\ WF_vars(TryProcessResume)
    /\ WF_vars(SendUnlock)

SpecLive == Spec /\ Fairness

(***************************************************************************)
(* The priority scenario: a feed that delivers one Created order and then  *)
(* C1, A1, C2, A2 (orders 1, 2, 3, 4), with no mempool tick in between.    *)
(* startLog records every processOrder call with the number of events the  *)
(* feed had delivered when it started.                                     *)
(***************************************************************************)
PriorityScript ==
    <<[orderId |-> 5, type |-> "Created", info |-> 1],
      [orderId |-> 1, type |-> "Created", info |-> 2],
      [orderId |-> 2, type |-> "ArchivalCreated", info |-> 3],
      [orderId |-> 3, type |-> "Created", info |-> 4],
      [orderId |-> 4, type |-> "ArchivalCreated", info |-> 5]>>

Started(params, fed) == [params |-> params, fed |-> fed]

ScriptedProcess ==
    /\ script # <<>>
    /\ feedCount < Len(script)
    /\ Deliver(script[feedCount + 1])
    /\ startLog' =
          IF ~isLocked
          THEN Append(startLog, Started(script[feedCount + 1], feedCount + 1))
          ELSE startLog
    /\ UNCHANGED <<executing, filteredOff, executorLog, script, startupVars, strictVars>>

ScriptedResume ==
    /\ script # <<>>
    /\ \E i \in At("end") :
          /\ Resume(i)
          /\ startLog' =
                IF Len(running') = Len(running)
                THEN Append(startLog, Started(running'[Len(running')].params, feedCount))
                ELSE startLog
    /\ UNCHANGED <<executing, filteredOff, executorLog,
                   feedCount, script, startupVars, strictVars>>

\* One Created order, and while it is in flight two events of another order.
Duplicate(first, second) ==
    <<[orderId |-> 2, type |-> "Created", info |-> 1],
      [orderId |-> 1, type |-> first, info |-> 2],
      [orderId |-> 1, type |-> second, info |-> 3]>>

DuplicateScripts == {Duplicate(first, second) : first, second \in CreatedStatuses}

InitDuplicates == InitProcessor /\ script \in {<<>>} \cup DuplicateScripts

InitPriority == InitProcessor /\ script \in {<<>>, PriorityScript}

NextScripted ==
    \/ Next
    \/ ScriptedProcess
    \/ ScriptedResume

SpecPriority == InitPriority /\ [][NextScripted]_vars

SpecDuplicates == InitDuplicates /\ [][NextScripted]_vars

\* An order is created, and a Cancelled or Fulfilled event follows for it.
InFlightScript(type) ==
    <<[orderId |-> 1, type |-> "Created", info |-> 1],
      [orderId |-> 1, type |-> type, info |-> 2]>>

InFlightScripts == {InFlightScript(type) : type \in {"Cancelled", "Fulfilled"}}

\* While order 1 is in flight order 2 arrives and is queued; an
\* ArchivalFulfilled event and an event of status Other follow for order 2.
ArchivalScript ==
    <<[orderId |-> 1, type |-> "Created", info |-> 1],
      [orderId |-> 2, type |-> "ArchivalCreated", info |-> 2],
      [orderId |-> 2, type |-> "ArchivalFulfilled", info |-> 3],
      [orderId |-> 2, type |-> "Other", info |-> 4]>>

InitInFlight ==
    InitProcessor /\ script \in {<<>>, ArchivalScript} \cup InFlightScripts

SpecInFlight == InitInFlight /\ [][NextScripted]_vars

\* SpecDuplicates with every processOrder call ending and every continuation
\* running, under a scripted feed as well
SpecDuplicatesLive == SpecDuplicates /\ Fairness /\ WF_vars(ScriptedResume)

(***************************************************************************)
(* The Executor in front of the processor: executeOrder looks the chains   *)
(* up, runs the filters of a Created / ArchivalCreated event and hands the *)
(* event to the take chain's processor.  The configuration has one         *)
(* dstFilter and one global filter for the take chain and one srcFilter    *)
(* for give chain "A", each a whitelistedOrderId filter.                   *)
(***************************************************************************)
ConfiguredChains == Range(OrderGiveChains) \cup {takeChainId}

\* The feed also knows orders of chains this Executor is not configured for:
\* one created on chain "X", and one to be taken on chain "Y".
UnconfiguredGive == NumOrders + 1

UnconfiguredTake == NumOrders + 2

FeedOrderIds == OrderIds \cup {UnconfiguredGive, UnconfiguredTake}

\* order.give.chainId and order.take.chainId of the feed's orders
orderGiveChainId(orderId) ==
    IF orderId = UnconfiguredGive THEN "X" ELSE giveChainId(orderId)

orderTakeChainId(orderId) ==
    IF orderId = UnconfiguredTake THEN "Y" ELSE takeChainId

\* IncomingOrder: an event as the feed passes it to execute
IncomingOrder == [orderId : FeedOrderIds, type : OrderInfoStatus, info : {0}]

\* executeOrder looking up the take chain only
chainsConfigured_TakeOnly(orderId) ==
    orderTakeChainId(orderId) \in ConfiguredChains

\* executeOrder: this.chains[order.take.chainId] and
\* this.chains[order.give.chainId] are both defined
chainsConfigured(orderId) ==
    /\ orderTakeChainId(orderId) \in ConfiguredChains
    /\ orderGiveChainId(orderId) \in ConfiguredChains

\* an entry of executorLog: the seq-th event of the feed was dropped for a
\* chain that is not configured, or handed to the processor
Logged(seq, result) == [seq |-> seq, result |-> result]

\* the filter that whitelistedOrderId(orderIds) builds, applied to an order
whitelistedOrderId(orderIds, orderId) == \E id \in orderIds : id = orderId

\* the filter that disableFulfill() builds, applied to an order
disableFulfill(orderId) == FALSE

\* a filter of the configuration: its initializer and the initializer's argument
Whitelist(orderIds) == [filter |-> "whitelistedOrderId", orderIds |-> orderIds]

DisableFulfill == [filter |-> "disableFulfill", orderIds |-> {}]

chainDstFilters == <<Whitelist(OrderIds \ {3})>>

configFilters == <<Whitelist(OrderIds)>>

chainSrcFilters(c) == IF c = "A" THEN <<Whitelist({1})>> ELSE <<>>

\* Executor.init without the filter of a disabled chain
dstFilters_NoDisable == chainDstFilters \o configFilters

\* Executor.init: disableFulfill is pushed to the dstFilters of a disabled
\* chain, and the global filters are appended to the chain's dstFilters
dstFilters ==
    (chainDstFilters \o (IF disabled THEN <<DisableFulfill>> ELSE <<>>))
        \o configFilters

srcFilters(c) == chainSrcFilters(c)

listOrderFilters(orderId) == dstFilters \o srcFilters(giveChainId(orderId))

\* a filter called with the order
callFilter(f, orderId) ==
    IF f.filter = "disableFulfill"
    THEN disableFulfill(orderId)
    ELSE whitelistedOrderId(f.orderIds, orderId)

\* the array Promise.all resolves to
orderFilters(orderId) ==
    [k \in 1 .. Len(listOrderFilters(orderId)) |->
        callFilter(listOrderFilters(orderId)[k], orderId)]

every_Some(results) == \E k \in DOMAIN results : results[k]

every(results) == \A k \in DOMAIN results : results[k]

\* executeOrder once Promise.all has resolved
executeOrderResume(s, params) ==
    IF every(orderFilters(params.orderId)) THEN process(s, params) ELSE s

\* executeOrder running the filters for an event of any status
runsFilters_Always(status) == TRUE

\* executeOrder: the filters run for Created and ArchivalCreated events only
runsFilters(status) == status \in {"Created", "ArchivalCreated"}

\* A feed event enters execute / executeOrder.
Execute ==
    /\ isInitialized
    /\ script = <<>>
    /\ feedCount < MaxFeed
    /\ \E params \in IncomingOrder :
          IF ~chainsConfigured(params.orderId)
          THEN /\ Install(State)
               /\ executing' = executing
               /\ executorLog' =
                     Append(executorLog, Logged(feedCount + 1, "notConfigured"))
          ELSE IF runsFilters(params.type)
          THEN /\ executing' =
                    Append(executing,
                           [params |-> params, seq |-> feedCount + 1,
                            pending |-> DOMAIN listOrderFilters(params.orderId)])
               /\ Install(State)
               /\ executorLog' = executorLog
          ELSE /\ Install(process(State, params))
               /\ executing' = executing
               /\ executorLog' =
                     Append(executorLog, Logged(feedCount + 1, "processed"))
    /\ feedCount' = feedCount + 1
    /\ UNCHANGED <<filteredOff, script, startupVars, strictVars, startLog>>

\* One of the filters of a call returns.
FilterReturns ==
    /\ \E k \in 1 .. Len(executing) : \E j \in executing[k].pending :
          executing' = [executing EXCEPT ![k].pending = @ \ {j}]
    /\ Install(State)
    /\ UNCHANGED <<filteredOff, executorLog, feedCount, script, startupVars, strictVars, startLog>>

\* All filters of a call have returned: executeOrder goes on.
ExecuteOrderResume ==
    /\ \E k \in 1 .. Len(executing) :
          /\ executing[k].pending = {}
          /\ Install(executeOrderResume(State, executing[k].params))
          /\ executing' = RemoveAt(executing, k)
          /\ filteredOff' =
                IF every(orderFilters(executing[k].params.orderId))
                THEN filteredOff
                ELSE filteredOff \cup {executing[k].params.orderId}
          /\ executorLog' =
                IF every(orderFilters(executing[k].params.orderId))
                THEN Append(executorLog, Logged(executing[k].seq, "processed"))
                ELSE executorLog
    /\ UNCHANGED <<feedCount, script, startupVars, strictVars, startLog>>

NextExec ==
    \/ Execute
    \/ FilterReturns
    \/ ExecuteOrderResume
    \/ MempoolTick
    \/ GetTakeOrderStatus
    \/ GetGiveOrderStatus
    \/ CalculateExpectedTakeAmount
    \/ GetBalance
    \/ CreateOrderFullfillTx
    \/ SendTransaction
    \/ WaitIsOrderFulfilled
    \/ UnlockOrderReturn
    \/ TryProcessResume
    \/ SendUnlock

SpecExec == Init /\ [][NextExec]_vars

\* The Executor with the take chain disabled, or not.
InitDisabled ==
    InitFields /\ disabled \in BOOLEAN /\ InitValidated /\ script = <<>>

SpecDisabled == InitDisabled /\ [][NextExec]_vars

(***************************************************************************)
(* Executor.getConfirmationRanges, applied to a chain definition with up   *)
(* to MaxThresholds thresholds.                                            *)
(***************************************************************************)
MaxThresholds == 3

BLOCK_CONFIRMATIONS_HARD_CAPS ==
    [chain \in {"Avalanche", "Arbitrum", "BSC", "Ethereum", "Polygon",
                "Solana", "Fantom"} |->
        CASE chain \in {"Avalanche", "Arbitrum", "BSC", "Fantom"} -> 15
          [] chain = "Ethereum" -> 12
          [] chain = "Polygon" -> 256
          [] chain = "Solana" -> 32]

\* the thresholds a definition may list
Thresholds ==
    [thresholdAmountInUSD : {100, 1000, 10000},
     minBlockConfirmations : {0, 1, 11, 12, 255, 256, 300}]

ChainDefinitions ==
    [chain : {"Ethereum", "Polygon"},
     requiredConfirmationsThresholds :
         UNION {[1 .. n -> Thresholds] : n \in 0 .. MaxThresholds}]

\* Array.prototype.sort with (a, b) => a.thresholdAmountInUSD <
\* b.thresholdAmountInUSD ? -1 : 1: the outcomes are the arrangements in
\* ascending order; the comparator leaves the order of equal amounts open
sort(thresholds) ==
    {sorted \in {[i \in DOMAIN thresholds |-> thresholds[f[i]]] :
                    f \in Permutations(DOMAIN thresholds)} :
        \A i \in DOMAIN sorted : \A j \in DOMAIN sorted :
            i < j => ~(sorted[j].thresholdAmountInUSD < sorted[i].thresholdAmountInUSD)}

\* the forEach callback without the test against the hard cap
RECURSIVE forEach_NoCap(_, _, _, _)
forEach_NoCap(chain, sorted, index, ranges) ==
    IF index > Len(sorted)
    THEN [called |-> TRUE, threw |-> FALSE, ranges |-> ranges]
    ELSE LET threshold == sorted[index]
             prev == IF index = 1
                     THEN [minBlockConfirmations |-> 0, thresholdAmountInUSD |-> 0]
                     ELSE sorted[index - 1]
         IN  IF threshold.minBlockConfirmations <= prev.minBlockConfirmations
             THEN [called |-> TRUE, threw |-> TRUE, ranges |-> <<>>]
             ELSE forEach_NoCap(chain, sorted, index + 1,
                      Append(ranges,
                             [usdWorthFrom |-> prev.thresholdAmountInUSD,
                              usdWorthTo |-> threshold.thresholdAmountInUSD,
                              minBlockConfirmations |-> threshold.minBlockConfirmations]))

\* the forEach callback of getConfirmationRanges, from index on
RECURSIVE forEach(_, _, _, _)
forEach(chain, sorted, index, ranges) ==
    IF index > Len(sorted)
    THEN [called |-> TRUE, threw |-> FALSE, ranges |-> ranges]
    ELSE LET threshold == sorted[index]
             prev == IF index = 1
                     THEN [minBlockConfirmations |-> 0, thresholdAmountInUSD |-> 0]
                     ELSE sorted[index - 1]
         IN  IF threshold.minBlockConfirmations <= prev.minBlockConfirmations
             THEN [called |-> TRUE, threw |-> TRUE, ranges |-> <<>>]
             ELSE IF BLOCK_CONFIRMATIONS_HARD_CAPS[chain]
                         <= threshold.minBlockConfirmations
             THEN [called |-> TRUE, threw |-> TRUE, ranges |-> <<>>]
             ELSE forEach(chain, sorted, index + 1,
                      Append(ranges,
                             [usdWorthFrom |-> prev.thresholdAmountInUSD,
                              usdWorthTo |-> threshold.thresholdAmountInUSD,
                              minBlockConfirmations |-> threshold.minBlockConfirmations]))

\* getConfirmationRanges on the thresholds as sort left them
getConfirmationRanges(chain, sorted) == forEach(chain, sorted, 1, <<>>)

\* Executor.init calls getConfirmationRanges for the chain; sort works in
\* place, so the definition holds the sorted thresholds afterwards.
GetConfirmationRanges ==
    /\ ~usdAmountConfirmations.called
    /\ \E sorted \in sort(definition.requiredConfirmationsThresholds) :
          /\ definition' =
                [definition EXCEPT !.requiredConfirmationsThresholds = sorted]
          /\ usdAmountConfirmations' = getConfirmationRanges(definition.chain, sorted)
    /\ Install(State)
    /\ UNCHANGED <<executing, filteredOff, executorLog, feedCount, script,
                   startLog, disabled, constructorParams, thisParams, initVars,
                   strictVars>>

InitConfirmations ==
    /\ InitFields
    /\ InitDone
    /\ script = <<>>
    /\ disabled = FALSE
    /\ constructorParams = [batchUnlockSize |-> Num(batchUnlockSize)]
    /\ thisParams = constructor(constructorParams)
    /\ definition \in ChainDefinitions
    /\ usdAmountConfirmations = [called |-> FALSE, threw |-> FALSE, ranges |-> <<>>]

NextConfirmations == GetConfirmationRanges

SpecConfirmations == InitConfirmations /\ [][NextConfirmations]_vars

(***************************************************************************)
(* new UniversalProcessor(params) for the params a configuration may give. *)
(***************************************************************************)
Construct ==
    /\ ~thisParams.constructed
    /\ thisParams' = constructor(constructorParams)
    /\ Install(State)
    /\ UNCHANGED <<executing, filteredOff, executorLog, feedCount, script,
                   startLog, disabled, definition, usdAmountConfirmations,
                   constructorParams, initVars,
                   strictVars>>

InitConstructor ==
    /\ InitFields
    /\ InitDone
    /\ script = <<>>
    /\ disabled = FALSE
    /\ definition = [chain |-> "Polygon", requiredConfirmationsThresholds |-> <<>>]
    /\ usdAmountConfirmations = [called |-> TRUE, threw |-> FALSE, ranges |-> <<>>]
    /\ constructorParams \in ConstructorParams
    /\ thisParams = [constructed |-> FALSE, threw |-> FALSE, params |-> defaultParams]

NextConstructor == Construct

SpecConstructor == InitConstructor /\ [][NextConstructor]_vars

(***************************************************************************)
(* StrictProcessor.process, one step per await.  Orders 1 and 4 take an    *)
(* approved token on an EVM chain, order 2 an approved token on Solana,    *)
(* and order 3 a token whose address only starts like an approved one.     *)
(***************************************************************************)
StrictOrderIds == 1 .. 4

\* constructor(approvedTokens)
approvedTokens == <<"0xAB", "0xcd">>

\* convertAddressToBuffer(chain, token): the bytes a hex string stands for
convertAddressToBuffer(token) ==
    CASE token \in {"0xAB", "0xab"} -> <<171>>
      [] token \in {"0xCD", "0xcd"} -> <<205>>
      [] token = "0xab00" -> <<171, 0>>

\* init: this.approvedTokensInBuffer
approvedTokensInBuffer ==
    [k \in DOMAIN approvedTokens |-> convertAddressToBuffer(approvedTokens[k])]

\* order.take.tokenAddress and order.take.chainId of the orders
takeTokenAddress(orderId) ==
    CASE orderId = 2 -> convertAddressToBuffer("0xCD")
      [] orderId = 3 -> convertAddressToBuffer("0xab00")
      [] OTHER -> convertAddressToBuffer("0xab")

takeChainIsSolana(orderId) == orderId = 2

\* a comparison that stops at the end of the shorter buffer
buffersAreEqual_Prefix(a, b) ==
    \A k \in DOMAIN a \cap DOMAIN b : a[k] = b[k]

buffersAreEqual(a, b) ==
    Len(a) = Len(b) /\ \A k \in DOMAIN a : a[k] = b[k]

\* this.approvedTokensInBuffer.some(address => buffersAreEqual(...))
takeTokenAllowed(orderId) ==
    \E k \in DOMAIN approvedTokensInBuffer :
        buffersAreEqual(takeTokenAddress(orderId), approvedTokensInBuffer[k])

StrictState == [calls |-> strictCalls, orderFulfilledMap |-> orderFulfilledMap]

\* a call of process: the order, the await it is at, what it has sent
StrictCall(orderId, pc) ==
    [orderId |-> orderId, pc |-> pc, iteration |-> 0, fulfillTx |-> "none",
     observed |-> FALSE, unlockTxs |-> <<>>, outcome |-> "running"]

StrictEnded(a, outcome) == [a EXCEPT !.pc = "end", !.outcome = outcome]

\* process up to its first await
strictProcess(st, orderId) ==
    IF ~takeTokenAllowed(orderId)
    THEN [st EXCEPT !.calls =
              Append(@, StrictEnded(StrictCall(orderId, "end"), "notAllowed"))]
    ELSE [st EXCEPT !.calls = Append(@, StrictCall(orderId, "getPrice"))]

\* an awaited call of the client resolves and process goes to the next
\* await, or it rejects and process throws
strictAwait(st, i, ok, next) ==
    IF ok
    THEN [st EXCEPT !.calls[i].pc = next]
    ELSE [st EXCEPT !.calls[i] = StrictEnded(@, "threw")]

\* fulfillOrder has built the transaction: the orderFulfilledMap test
strictFulfillOrder(st, i, ok) ==
    IF ~ok
    THEN [st EXCEPT !.calls[i] = StrictEnded(@, "threw")]
    ELSE IF st.calls[i].orderId \in st.orderFulfilledMap
    THEN [st EXCEPT !.orderFulfilledMap = @ \ {st.calls[i].orderId},
                    !.calls[i] = StrictEnded(@, "OrderIsFulfilled")]
    ELSE [st EXCEPT !.calls[i].pc = "sendFulfill"]

\* the send of the fulfill transaction with its failure not caught
strictSendFulfill_GoesOn(st, i, ok) ==
    [st EXCEPT !.calls[i].fulfillTx = IF ok THEN "sent" ELSE "failed",
               !.calls[i].pc =
                   IF takeChainIsSolana(st.calls[i].orderId)
                   THEN "getTakeOrderStatus"
                   ELSE "sendUnlockOrder"]

\* takeProviderFulfill.sendTransaction(fulfillTx), in try / catch
strictSendFulfill(st, i, ok) ==
    IF ~ok
    THEN [st EXCEPT !.calls[i] =
              StrictEnded([@ EXCEPT !.fulfillTx = "failed"], "fulfillFailed")]
    ELSE [st EXCEPT !.calls[i].fulfillTx = "sent",
                    !.calls[i].pc =
                        IF takeChainIsSolana(st.calls[i].orderId)
                        THEN "getTakeOrderStatus"
                        ELSE "sendUnlockOrder"]

\* Solana: the first getTakeOrderStatus
strictTakeOrderStatus(st, i, result) ==
    CASE result = "throw" -> [st EXCEPT !.calls[i] = StrictEnded(@, "threw")]
      [] result = "Fulfilled" ->
            [st EXCEPT !.calls[i].observed = TRUE, !.calls[i].pc = "sendUnlockOrder"]
      [] OTHER -> [st EXCEPT !.calls[i].pc = "poll"]

\* Solana: a getTakeOrderStatus of the while loop and the loop's next test
strictPoll(st, i, result) ==
    CASE result = "throw" -> [st EXCEPT !.calls[i] = StrictEnded(@, "threw")]
      [] result = "Fulfilled" ->
            [st EXCEPT !.calls[i].iteration = @ + 1, !.calls[i].observed = TRUE,
                       !.calls[i].pc = "sendUnlockOrder"]
      [] OTHER ->
            IF st.calls[i].iteration + 1 = limit
            THEN [st EXCEPT !.calls[i] =
                      StrictEnded([@ EXCEPT !.iteration = limit], "threw")]
            ELSE [st EXCEPT !.calls[i].iteration = @ + 1]

\* takeProviderUnlock.sendTransaction(unlockTx): the transaction unlocks the
\* one order of the call
strictSendUnlock(st, i, ok) ==
    [st EXCEPT !.calls[i] =
        StrictEnded([@ EXCEPT !.unlockTxs =
                         Append(@, [ids |-> <<st.calls[i].orderId>>,
                                    result |-> IF ok THEN "sent" ELSE "failed"])],
                    IF ok THEN "unlocked" ELSE "threw")]

InstallStrict(st) ==
    /\ strictCalls' = st.calls
    /\ orderFulfilledMap' = st.orderFulfilledMap

StrictAt(pc) == {i \in 1 .. Len(strictCalls) : strictCalls[i].pc = pc}

notStrict ==
    <<isLocked, priorityQueue, queue, incomingOrdersMap, running, mempool,
      batches, unlockSends, takeFulfilled, handedLog, unlockTxLog,
      executing, filteredOff, executorLog, script, startLog, startupVars>>

\* The Executor calls process for an order.
StrictProcess ==
    /\ feedCount < MaxFeed
    /\ \E orderId \in StrictOrderIds :
          InstallStrict(strictProcess(StrictState, orderId))
    /\ feedCount' = feedCount + 1
    /\ UNCHANGED notStrict

\* The Executor notes a Fulfilled event in context.orderFulfilledMap.
StrictOrderFulfilled ==
    /\ feedCount < MaxFeed
    /\ \E orderId \in StrictOrderIds :
          orderFulfilledMap' = orderFulfilledMap \cup {orderId}
    /\ feedCount' = feedCount + 1
    /\ UNCHANGED <<strictCalls, notStrict>>

StrictGetPrice ==
    /\ \E i \in StrictAt("getPrice"), ok \in BOOLEAN :
          InstallStrict(strictAwait(StrictState, i, ok, "getTakerFlowCost"))
    /\ UNCHANGED <<feedCount, notStrict>>

StrictGetTakerFlowCost ==
    /\ \E i \in StrictAt("getTakerFlowCost"), ok \in BOOLEAN :
          InstallStrict(strictAwait(StrictState, i, ok, "getAmountToSend"))
    /\ UNCHANGED <<feedCount, notStrict>>

StrictGetAmountToSend ==
    /\ \E i \in StrictAt("getAmountToSend"), ok \in BOOLEAN :
          InstallStrict(strictAwait(StrictState, i, ok, "fulfillOrder"))
    /\ UNCHANGED <<feedCount, notStrict>>

StrictFulfillOrder ==
    /\ \E i \in StrictAt("fulfillOrder"), ok \in BOOLEAN :
          InstallStrict(strictFulfillOrder(StrictState, i, ok))
    /\ UNCHANGED <<feedCount, notStrict>>

StrictSendFulfill ==
    /\ \E i \in StrictAt("sendFulfill"), ok \in BOOLEAN :
          InstallStrict(strictSendFulfill(StrictState, i, ok))
    /\ UNCHANGED <<feedCount, notStrict>>

StrictGetTakeOrderStatus ==
    /\ \E i \in StrictAt("getTakeOrderStatus"),
          result \in {"Fulfilled", "NotSet", "throw"} :
          InstallStrict(strictTakeOrderStatus(StrictState, i, result))
    /\ UNCHANGED <<feedCount, notStrict>>

StrictPoll ==
    /\ \E i \in StrictAt("poll"), result \in {"Fulfilled", "NotSet", "throw"} :
          InstallStrict(strictPoll(StrictState, i, result))
    /\ UNCHANGED <<feedCount, notStrict>>

StrictSendUnlockOrder ==
    /\ \E i \in StrictAt("sendUnlockOrder"), ok \in BOOLEAN :
          InstallStrict(strictAwait(StrictState, i, ok, "sendUnlock"))
    /\ UNCHANGED <<feedCount, notStrict>>

StrictSendUnlock ==
    /\ \E i \in StrictAt("sendUnlock"), ok \in BOOLEAN :
          InstallStrict(strictSendUnlock(StrictState, i, ok))
    /\ UNCHANGED <<feedCount, notStrict>>

NextStrict ==
    \/ StrictProcess
    \/ StrictOrderFulfilled
    \/ StrictGetPrice
    \/ StrictGetTakerFlowCost
    \/ StrictGetAmountToSend
    \/ StrictFulfillOrder
    \/ StrictSendFulfill
    \/ StrictGetTakeOrderStatus
    \/ StrictPoll
    \/ StrictSendUnlockOrder
    \/ StrictSendUnlock

SpecStrict == Init /\ [][NextStrict]_vars

(***************************************************************************)
(* The Executor from the call of init on.                                  *)
(***************************************************************************)
InitStep ==
    /\ initPc.step \notin {"failed", "initialized"}
    /\ \E ok \in BOOLEAN :
          LET st == initStep(InitState, ok)
          IN  /\ isInitialized' = st.isInitialized
              /\ initPc' = st.initPc
              /\ initLog' = st.initLog
    /\ Install(State)
    /\ UNCHANGED <<executing, filteredOff, executorLog, feedCount, script,
                   startLog, disabled, definition, usdAmountConfirmations,
                   constructorParams, thisParams,
                   strictVars>>

InitStartup ==
    /\ InitFields
    /\ script = <<>>
    /\ disabled = FALSE
    /\ definition = [chain |-> "Polygon", requiredConfirmationsThresholds |-> <<>>]
    /\ usdAmountConfirmations = [called |-> TRUE, threw |-> FALSE, ranges |-> <<>>]
    /\ constructorParams = [batchUnlockSize |-> Num(batchUnlockSize)]
    /\ thisParams = constructor(constructorParams)
    /\ InitNotStarted

NextStartup ==
    \/ InitStep
    \/ NextExec

SpecStartup == InitStartup /\ [][NextStartup]_vars

(***************************************************************************)
(* The callers of the BatchUnlocker: a feed of new orders (Created) and of *)
(* orders that were fulfilled earlier and still have to be unlocked        *)
(* (ArchivalFulfilled), long enough for a batch to fill and to receive one *)
(* more entry; the mempool timer does not fire.                            *)
(***************************************************************************)
MaxHanded == batchUnlockSize + 2

UnlockFeed ==
    /\ script = <<>>
    /\ feedCount < MaxHanded
    /\ \E orderId \in OrderIds, type \in {"Created", "ArchivalFulfilled"} :
          Deliver([orderId |-> orderId, type |-> type, info |-> 0])
    /\ UNCHANGED <<executing, filteredOff, executorLog,
                   script, startupVars, strictVars, startLog>>

NextUnlock ==
    \/ UnlockFeed
    \/ GetTakeOrderStatus
    \/ GetGiveOrderStatus
    \/ CalculateExpectedTakeAmount
    \/ GetBalance
    \/ CreateOrderFullfillTx
    \/ SendTransaction
    \/ WaitIsOrderFulfilled
    \/ UnlockOrderReturn
    \/ TryProcessResume
    \/ SendUnlock

SpecUnlock == Init /\ [][NextUnlock]_vars

(***************************************************************************)
(* Properties.                                                             *)
(***************************************************************************)
Queued(orderId) ==
    orderId \in Range(priorityQueue) \/ orderId \in Range(queue)

Sending == {i \in 1 .. Len(running) : running[i].pc = "sendTransaction"}

\* At most one processOrder is active, only under the lock, so at most one
\* fulfill transaction is being sent.
SerialInv ==
    /\ Len(running) <= 1
    /\ running # <<>> => isLocked
    /\ Cardinality(Sending) <= 1

\* The step is process(params) for a Created / ArchivalCreated event that
\* finds the lock set.
LockedArrival(params) ==
    /\ params.type \in CreatedStatuses
    /\ isLocked
    /\ feedCount' = feedCount + 1
    /\ Install(process(State, params))

\* such an event starts no processOrder and is found in its queue afterwards
LockedArrivalEnqueues ==
    \A params \in IncomingOrderContext :
        LockedArrival(params) =>
            /\ running' = running
            /\ isLocked'
            /\ IF params.type = "Created"
               THEN params.orderId \in Range(priorityQueue')
               ELSE params.orderId \in Range(queue')

\* C1: processOrder is never active for two orders at the same time: it
\* runs only under isLocked, an event that arrives while isLocked is set is
\* enqueued instead of processed, and at most one fulfill transaction is
\* being sent at any time.
C1_SerialPerChain == [](SerialInv) /\ [][LockedArrivalEnqueues]_vars

\* a fulfill transaction is being sent while another order waits in a queue
C1_Witness ==
    /\ Len(running) = 1
    /\ running[1].pc = "sendTransaction"
    /\ priorityQueue # <<>>
    /\ queue # <<>>

\* what pickNextOrder has to pick: the earliest-inserted orderId of primary,
\* else of secondary, else nothing (0)
EarliestQueued ==
    IF priorityQueue # <<>> THEN priorityQueue[1]
    ELSE IF queue # <<>> THEN queue[1]
    ELSE 0

PicksEarliest ==
    IF EarliestQueued = 0
    THEN running' = <<>> /\ ~isLocked'
    ELSE /\ Len(running') = 1
         /\ running'[1].params.orderId = EarliestQueued
         /\ isLocked'
         /\ priorityQueue' = SetDelete(priorityQueue, EarliestQueued)
         /\ queue' = SetDelete(queue, EarliestQueued)

StartedIds == [k \in 1 .. Len(startLog) |-> startLog[k].params.orderId]

IsPrefix(a, b) == Len(a) <= Len(b) /\ a = SubSeq(b, 1, Len(a))

\* all of C1, A1, C2, A2 had arrived when the in-flight order completed
BusyReceivedAll ==
    /\ script = PriorityScript
    /\ Len(startLog) >= 2
    /\ startLog[1].fed = 1
    /\ startLog[2].fed = Len(script)

\* C2: when the processor finishes an order it picks the earliest-inserted
\* orderId of primary if primary is non-empty and otherwise the
\* earliest-inserted orderId of secondary; a busy processor that receives
\* C1, A1, C2, A2 processes them in the order C1, C2, A1, A2.
C2_PriorityOrder ==
    /\ [][(\E i \in At("end") : Resume(i)) => PicksEarliest]_vars
    /\ [](BusyReceivedAll => IsPrefix(StartedIds, <<5, 1, 3, 2, 4>>))

C2_Witness ==
    /\ BusyReceivedAll
    /\ StartedIds = <<5, 1, 3, 2, 4>>

\* some filter of the combined list returns false for the order
FilterRejects(orderId) == \E k \in DOMAIN orderFilters(orderId) : ~orderFilters(orderId)[k]

\* the processor holds nothing of the order and it was never fulfilled
NeverForwarded(orderId) ==
    /\ ~Queued(orderId)
    /\ orderId \notin DOMAIN incomingOrdersMap
    /\ orderId \notin mempoolKeys(mempool)
    /\ \A i \in 1 .. Len(running) : running[i].params.orderId # orderId
    /\ orderId \notin takeFulfilled

DroppedUnchanged ==
    \A k \in 1 .. Len(executing) :
        (/\ executing[k].pending = {}
         /\ FilterRejects(executing[k].params.orderId)
         /\ executing' = RemoveAt(executing, k))
        => UNCHANGED State

\* C3: a Created or ArchivalCreated event of an order for which some filter of
\* the combined list returns false is dropped without reaching the
\* processor, and the order is never fulfilled, whatever the other filters
\* return and in whatever order the filters complete.
C3_FilterUnanimity ==
    /\ [](\A orderId \in OrderIds : FilterRejects(orderId) => NeverForwarded(orderId))
    /\ [][DroppedUnchanged]_vars

C3_Witness ==
    /\ \E orderId \in filteredOff :
          \E k \in DOMAIN orderFilters(orderId) : orderFilters(orderId)[k]
    /\ takeFulfilled # {}

GiveChains == DOMAIN handedLog

TxsOf(c) == SelectSeq(unlockTxLog, LAMBDA tx : tx.chain = c)

NoSendFailed(c) == \A k \in 1 .. Len(TxsOf(c)) : TxsOf(c)[k].result # "failed"

\* the k-th run of batchUnlockSize orders handed over for give chain c
HandedBatch(c, k) ==
    SubSeq(handedLog[c], (k - 1) * batchUnlockSize + 1, k * batchUnlockSize)

\* C4: as long as no unlock send has failed for a source chain, every
\* batchUnlockSize-th hand-over for it submits one unlock transaction, which
\* carries the batchUnlockSize orderIds handed over since the previous one, in
\* hand-over order; so after exactly batchUnlockSize hand-overs exactly one
\* unlock transaction has been submitted, with exactly those orderIds.
C4_BatchFlush ==
    \A c \in GiveChains :
        NoSendFailed(c) =>
            /\ Len(TxsOf(c)) = Len(handedLog[c]) \div batchUnlockSize
            /\ \A k \in 1 .. Len(TxsOf(c)) : TxsOf(c)[k].ids = HandedBatch(c, k)

C4_Witness ==
    \E c \in GiveChains :
        /\ Len(handedLog[c]) = batchUnlockSize
        /\ NoSendFailed(c)
        /\ Len(TxsOf(c)) = 1
        /\ TxsOf(c)[1].ids = handedLog[c]
        /\ \E i \in 1 .. Len(running) :
              /\ running[i].pc = "unlockOrder"
              /\ giveChainId(running[i].params.orderId) = c

\* an unlock transaction is submitted in this step
Submits == Len(unlockTxLog') = Len(unlockTxLog) + 1

Submitted == unlockTxLog'[Len(unlockTxLog')]

\* a submission happens in an unlockOrder call that brings the batch to
\* batchUnlockSize entries or more, and takes the first batchUnlockSize of them
SubmitsFullBatch ==
    Submits =>
        LET c == Submitted.chain
        IN  /\ Len(handedLog'[c]) = Len(handedLog[c]) + 1
            /\ Len(batches[c]) + 1 >= batchUnlockSize
            /\ Submitted.ids =
                  SubSeq(Append(batches[c], handedLog'[c][Len(handedLog'[c])]),
                         1, batchUnlockSize)

\* q occurs in r as a run of consecutive entries
IsRunOf(q, r) == \E n \in 0 .. Len(r) : SubSeq(r, n + 1, n + Len(q)) = q

\* without a submission for its source chain a batch keeps its entries
PartialBatchStays ==
    \A c \in GiveChains :
        (~Submits \/ Submitted.chain # c) => IsRunOf(batches[c], batches'[c])

\* C5: an unlock transaction is submitted only for a source chain whose batch
\* has reached batchUnlockSize entries, every submitted unlock transaction
\* carries exactly batchUnlockSize orders of one source chain, and a batch
\* with fewer entries stays as it is: while fewer than batchUnlockSize orders
\* were handed over for a source chain, its batch holds exactly them and no
\* unlock transaction was sent for it.
C5_NoPartialUnlock ==
    /\ [](\A k \in 1 .. Len(unlockTxLog) :
            /\ Len(unlockTxLog[k].ids) = batchUnlockSize
            /\ \A n \in 1 .. Len(unlockTxLog[k].ids) :
                  giveChainId(unlockTxLog[k].ids[n]) = unlockTxLog[k].chain)
    /\ [](\A c \in GiveChains :
            Len(handedLog[c]) < batchUnlockSize =>
                TxsOf(c) = <<>> /\ batches[c] = handedLog[c])
    /\ [][SubmitsFullBatch /\ PartialBatchStays]_vars

C5_Witness ==
    \E c \in GiveChains :
        /\ Len(batches[c]) = batchUnlockSize - 1
        /\ batches[c] # <<>>
        /\ batches[c] = handedLog[c]
        /\ TxsOf(c) = <<>>
        /\ \E i \in 1 .. Len(running) :
              /\ running[i].outcome = "Unlocked"
              /\ giveChainId(running[i].params.orderId) = c

Count(q, x) == Cardinality({n \in 1 .. Len(q) : q[n] = x})

RECURSIVE CountInTxs(_, _)
CountInTxs(txs, x) ==
    IF txs = <<>> THEN 0
    ELSE (IF Head(txs).result = "failed" THEN 0 ELSE Count(Head(txs).ids, x))
         + CountInTxs(Tail(txs), x)

\* every hand-over is in the batch, in an unlock transaction being sent, or
\* in one that was sent
NoneLost ==
    \A c \in GiveChains : \A orderId \in OrderIds :
        Count(handedLog[c], orderId) =
            Count(batches[c], orderId) + CountInTxs(TxsOf(c), orderId)

\* the send of unlock transaction k ends in this step
SendEnds(k, result) ==
    /\ unlockTxLog[k].result = "pending"
    /\ unlockTxLog'[k].result = result

SendOutcome ==
    \A k \in 1 .. Len(unlockTxLog) :
        LET tx == unlockTxLog[k]
        IN  /\ SendEnds(k, "failed") =>
                  batches' = [batches EXCEPT ![tx.chain] = tx.ids \o @]
            /\ SendEnds(k, "sent") => batches' = batches

\* an unlockOrder call that finds batchUnlockSize entries or more in the batch
\* submits the first batchUnlockSize of them
NextCallRetries ==
    \A c \in GiveChains :
        (/\ Len(handedLog'[c]) = Len(handedLog[c]) + 1
         /\ Len(batches[c]) >= batchUnlockSize)
        => /\ Submits
           /\ Submitted.chain = c
           /\ Submitted.ids = SubSeq(batches[c], 1, batchUnlockSize)

\* C6: when the send of an unlock transaction fails its entries go back to the
\* front of their source chain's batch in their order, ahead of the entries
\* appended meanwhile, and the next unlockOrder call for that source chain
\* submits them again; when the send succeeds they are gone from the batch;
\* no handed-over order is lost.
C6_UnlockRetry ==
    /\ [](NoneLost)
    /\ [][SendOutcome /\ NextCallRetries]_vars

C6_Witness ==
    \E j \in 1 .. Len(unlockTxLog) : \E k \in (j + 1) .. Len(unlockTxLog) :
        /\ unlockTxLog[j].result = "failed"
        /\ unlockTxLog[k].chain = unlockTxLog[j].chain
        /\ unlockTxLog[k].ids = unlockTxLog[j].ids
        /\ unlockTxLog[k].result = "sent"
        /\ Len(batches[unlockTxLog[j].chain]) = batchUnlockSize
        /\ Len(handedLog[unlockTxLog[j].chain]) = 2 * batchUnlockSize

\* the events a feed may deliver
FeedEvents == IF script = <<>> THEN IncomingOrderContext ELSE Range(script)

OneEntryPerQueue ==
    \A orderId \in OrderIds :
        Count(priorityQueue, orderId) <= 1 /\ Count(queue, orderId) <= 1

OneEntry ==
    \A orderId \in OrderIds :
        Count(priorityQueue, orderId) + Count(queue, orderId) <= 1

\* an event that finds the processor busy becomes the context of its orderId;
\* it adds an entry to its queue only if the queue does not hold the orderId
EnqueueKeepsLatest ==
    \A params \in FeedEvents :
        LockedArrival(params) =>
            /\ incomingOrdersMap'[params.orderId] = params
            /\ IF params.type = "Created"
               THEN /\ queue' = queue
                    /\ priorityQueue' =
                          IF params.orderId \in Range(priorityQueue)
                          THEN priorityQueue
                          ELSE Append(priorityQueue, params.orderId)
               ELSE /\ priorityQueue' = priorityQueue
                    /\ queue' =
                          IF params.orderId \in Range(queue)
                          THEN queue
                          ELSE Append(queue, params.orderId)

\* the picked orderId goes to processOrder with its stored context and is in
\* neither queue afterwards
PickForgets ==
    ((\E i \in At("end") : Resume(i)) /\ EarliestQueued # 0) =>
        /\ running'[1].params = incomingOrdersMap[EarliestQueued]
        /\ EarliestQueued \notin Range(priorityQueue') \cup Range(queue')
        /\ EarliestQueued \notin DOMAIN incomingOrdersMap'

\* both events of order 1 arrived while the first order was in flight
BusyReceivedBoth ==
    /\ script \in DuplicateScripts
    /\ Len(startLog) >= 2
    /\ startLog[1].fed = 1
    /\ startLog[2].fed = Len(script)

ProcessedOnceWithLatest ==
    /\ BusyReceivedBoth =>
          Len(startLog) = 2 /\ startLog[2].params = script[Len(script)]
    /\ (script \in DuplicateScripts /\ feedCount = Len(script) /\ ~isLocked) =>
          Len(startLog) >= 2

\* C7 as stated: an orderId that is enqueued twice while the processor is busy
\* has one queue entry (also for one Created and one ArchivalCreated event)
\* and is passed to processOrder exactly once, with the most recently
\* received event as its context.
C7_SecondInsertionNoEntry ==
    /\ [](OneEntry)
    /\ [](ProcessedOnceWithLatest)
    /\ [][EnqueueKeepsLatest /\ PickForgets]_vars

\* C7 amended: a second event of the same type adds no entry to its queue,
\* one Created and one ArchivalCreated event leave the orderId once in primary
\* and once in secondary; the stored context is the most recently received
\* event, picking the orderId removes it from both queues, and it is passed to
\* processOrder exactly once with that context.
C7_ProcessedOnceWithLatest ==
    /\ [](OneEntryPerQueue)
    /\ [](ProcessedOnceWithLatest)
    /\ [][EnqueueKeepsLatest /\ PickForgets]_vars

C7_Witness ==
    /\ script = Duplicate("Created", "ArchivalCreated")
    /\ BusyReceivedBoth
    /\ ~isLocked
    /\ running = <<>>

\* processOrder is at work on the order
Examining(orderId) ==
    \E i \in 1 .. Len(running) :
        running[i].params.orderId = orderId /\ running[i].pc # "end"

\* the mempool holds the order, deferred from an event of one of the types
Deferred(orderId, types) ==
    \E k \in 1 .. Len(mempool) :
        mempool[k].orderId = orderId /\ mempool[k].type \in types

ReExamined(types) ==
    \A orderId \in OrderIds :
        (Deferred(orderId, types) /\ ~Examining(orderId))
            ~> (Examining(orderId) \/ orderId \notin mempoolKeys(mempool))

\* the mempool timer fires while the mempool holds orders
TickStep ==
    /\ mempool # <<>>
    /\ State' = mempoolProcess(State, mempool)
    /\ feedCount' = feedCount

\* a tick hands every mempool entry to the processor, which starts it or
\* enqueues it by its type, and leaves the mempool as it is
TickResubmits ==
    TickStep =>
        /\ mempool' = mempool
        /\ \A k \in 1 .. Len(mempool) :
              \/ \E i \in 1 .. Len(running') :
                    running'[i].params = mempool[k] /\ running'[i].pc # "end"
              \/ /\ mempool[k].orderId \in
                        (IF mempool[k].type = "Created"
                         THEN Range(priorityQueue') ELSE Range(queue'))
                 /\ mempool[k].orderId \in DOMAIN incomingOrdersMap'

\* an attempt sends at most one fulfill transaction, and exactly one once its
\* send has succeeded
AttemptSendsOnce ==
    \A i \in 1 .. Len(running) :
        /\ running[i].sendCalls <= 1
        /\ running[i].txSent <= running[i].sendCalls
        /\ (\/ running[i].pc \in {"waitIsOrderFulfilled", "unlockOrder"}
            \/ running[i].outcome \in {"Unlocked", "FulfillmentNotObserved"})
           => running[i].txSent = 1

\* C8 as stated: every mempool tick resubmits a deferred order, an attempt
\* that finds it profitable (with sufficient balance and a successful send)
\* sends exactly one fulfill transaction, and with the timer firing and every
\* processOrder call ending every deferred order is eventually examined again.
C8_MempoolRedrive ==
    /\ [][TickResubmits]_vars
    /\ [](AttemptSendsOnce)
    /\ ReExamined(CreatedStatuses)

\* C8 amended: as C8, but the order is eventually examined again if it was
\* deferred from a Created event (or leaves the mempool before); an order
\* deferred from an ArchivalCreated event is resubmitted to secondary.
C8_MempoolRedriveCreated ==
    /\ [][TickResubmits]_vars
    /\ [](AttemptSendsOnce)
    /\ ReExamined({"Created"})

\* one event was delivered, its order was found unprofitable, and a tick has
\* resubmitted it before the attempt was over
C8_Witness ==
    /\ feedCount = 1
    /\ \E i \in 1 .. Len(running) :
          /\ running[i].outcome = "Unprofitable"
          /\ running[i].params.orderId \in mempoolKeys(mempool)
          /\ running[i].params.orderId \in Range(priorityQueue)

\* the attempt of running[i] ends in this step with its order in the mempool
EndsDeferred(i) ==
    /\ running'[i].pc = "end"
    /\ \E k \in 1 .. Len(mempool') : mempool'[k] = running[i].params
    /\ handedLog' = handedLog
    /\ unlockTxLog' = unlockTxLog
    /\ takeFulfilled' = takeFulfilled

\* calculateExpectedTakeAmount returns isProfitable = false
FoundUnprofitable(i) ==
    /\ running[i].pc = "calculateExpectedTakeAmount"
    /\ State' = calculateStep(State, i, "unprofitable")

\* getBalance returns less than requiredReserveDstAmount
FoundInsufficient(i) ==
    /\ running[i].pc = "getBalance"
    /\ \E balance \in Balances :
          /\ balance < requiredReserveDstAmount(running[i].params.orderId)
          /\ State' = getBalanceStep(State, i, balance)

DefersUnfunded ==
    \A i \in 1 .. Len(running) :
        (FoundUnprofitable(i) \/ FoundInsufficient(i)) =>
            /\ EndsDeferred(i)
            /\ ~running'[i].built
            /\ running'[i].sendCalls = 0
            /\ running'[i].txSent = 0
            /\ ~running'[i].handed

\* C9: when calculateExpectedTakeAmount finds the order unprofitable, or the
\* reserve balance is below requiredReserveDstAmount, processOrder adds the
\* order to the mempool and ends, having built and sent no fulfill
\* transaction and having handed nothing to the BatchUnlocker.
C9_DefersUnfunded ==
    /\ [][DefersUnfunded]_vars
    /\ [](\A i \in 1 .. Len(running) :
            running[i].outcome \in {"Unprofitable", "InsufficientReserve"} =>
                /\ running[i].pc = "end"
                /\ ~running[i].built
                /\ running[i].txSent = 0
                /\ ~running[i].handed)

C9_Witness ==
    \E i \in 1 .. Len(running) :
        /\ running[i].outcome = "InsufficientReserve"
        /\ Len(mempool) = 2
        /\ mempool[2] = running[i].params

\* sendTransaction throws
SendFails(i) ==
    /\ running[i].pc = "sendTransaction"
    /\ State' = sendTransactionStep(State, i, FALSE)

\* processOrder hands the order of running[i] to the BatchUnlocker
HandsOver(i) ==
    /\ Len(running') = Len(running)
    /\ running'[i].params = running[i].params
    /\ ~running[i].handed
    /\ running'[i].handed

SendFailureDefers ==
    \A i \in 1 .. Len(running) :
        /\ SendFails(i) =>
              /\ EndsDeferred(i)
              /\ ~running'[i].waited
              /\ ~running'[i].handed
        /\ HandsOver(i) =>
              /\ running[i].pc = "waitIsOrderFulfilled"
              /\ running[i].txSent = 1
              /\ handedLog' =
                    [handedLog EXCEPT ![giveChainId(running[i].params.orderId)] =
                        Append(@, running[i].params.orderId)]

\* C10: when the send of the fulfill transaction fails, processOrder adds the
\* order to the mempool and ends without waiting for the fulfillment and
\* without handing the order to the BatchUnlocker; it waits only after a
\* successful send, and hands the order over only from that wait.
C10_SendFailureDefers ==
    /\ [][SendFailureDefers]_vars
    /\ [](\A i \in 1 .. Len(running) :
            /\ running[i].waited => running[i].txSent = 1
            /\ running[i].handed => running[i].waited
            /\ running[i].outcome = "FulfillSendFailed" =>
                  running[i].pc = "end" /\ ~running[i].waited /\ ~running[i].handed)

C10_Witness ==
    \E i \in 1 .. Len(running) :
        /\ running[i].outcome = "FulfillSendFailed"
        /\ running[i].params \in Range(mempool)
        /\ takeFulfilled # {}
        /\ \E c \in GiveChains : handedLog[c] # <<>>

\* getTakeOrderStatus returns a status that is neither NotSet nor unknown
FoundTakeStatus(i) ==
    /\ running[i].pc = "getTakeOrderStatus"
    /\ \E status \in TakeOrderStatuses \ {"NotSet", "undefined", "throw"} :
          State' = takeOrderStatusStep(State, i, status)

\* the attempt of running[i] is over as a failure that sent nothing, deferred
\* nothing and handed nothing over
FailedUntouched(a) ==
    /\ a.pc = "end"
    /\ ~a.built
    /\ a.sendCalls = 0
    /\ a.txSent = 0
    /\ ~a.deferred
    /\ ~a.handed

AlreadyFulfilledFails ==
    \A i \in 1 .. Len(running) :
        FoundTakeStatus(i) =>
            /\ running'[i].outcome = "AlreadyFulfilled"
            /\ FailedUntouched(running'[i])
            /\ mempool' = mempool
            /\ takeFulfilled' = takeFulfilled
            /\ batches' = batches
            /\ handedLog' = handedLog
            /\ unlockTxLog' = unlockTxLog

\* C11: when getTakeOrderStatus returns a status other than NotSet or unknown
\* (Fulfilled, for one), processOrder fails for the order: this attempt sends
\* no fulfill transaction, does not add the order to the mempool and does not
\* hand it to the BatchUnlocker.
C11_AlreadyFulfilledFails ==
    /\ [][AlreadyFulfilledFails]_vars
    /\ [](\A i \in 1 .. Len(running) :
            running[i].outcome = "AlreadyFulfilled" => FailedUntouched(running[i]))

\* a Created event of an order this taker has fulfilled before is turned down
C11_Witness ==
    \E i \in 1 .. Len(running) :
        /\ running[i].outcome = "AlreadyFulfilled"
        /\ running[i].params.type = "Created"
        /\ running[i].params.orderId \in takeFulfilled
        /\ mempool = <<>>

\* running[i] is a processOrder call that is still at work; it is at the same
\* index after the step
Working(i) == running[i].pc # "end" /\ i <= Len(running')

\* running'[i] is a processOrder call that this step has started
StartedNow(i) ==
    \/ i > Len(running)
    \/ running[i].pc = "end" /\ running'[i] # running[i]

\* the awaits of processOrder follow each other in the order of the code,
\* each passed only with the result the code asks for
GatesInOrder ==
    \A i \in 1 .. Len(running) :
        (Working(i) /\ running'[i].pc # running[i].pc) =>
            LET a == running[i]
                b == running'[i]
            IN  /\ b.pc = "getTakeOrderStatus" => FALSE
                /\ b.pc = "getGiveOrderStatus" =>
                      /\ a.pc = "getTakeOrderStatus"
                      /\ \E status \in {"NotSet", "undefined"} :
                            State' = takeOrderStatusStep(State, i, status)
                /\ b.pc = "calculateExpectedTakeAmount" =>
                      /\ a.pc = "getGiveOrderStatus"
                      /\ State' = giveOrderStatusStep(State, i, "Created")
                /\ b.pc = "getBalance" =>
                      /\ a.pc = "calculateExpectedTakeAmount"
                      /\ State' = calculateStep(State, i, "profitable")
                /\ b.pc = "createOrderFullfillTx" =>
                      /\ a.pc = "getBalance"
                      /\ \E balance \in Balances :
                            /\ balance >= requiredReserveDstAmount(a.params.orderId)
                            /\ State' = getBalanceStep(State, i, balance)
                /\ b.pc = "sendTransaction" =>
                      a.pc = "createOrderFullfillTx" /\ b.sendCalls = a.sendCalls + 1
                /\ b.pc = "waitIsOrderFulfilled" =>
                      a.pc = "sendTransaction" /\ b.txSent = a.txSent + 1

\* the fulfill transaction is sent from the sendTransaction await only
SendsAtSend ==
    \A i \in 1 .. Len(running) :
        Working(i) =>
            /\ running'[i].sendCalls # running[i].sendCalls =>
                  running[i].pc = "createOrderFullfillTx"
            /\ running'[i].txSent # running[i].txSent =>
                  /\ running[i].pc = "sendTransaction"
                  /\ takeFulfilled' = takeFulfilled \cup {running[i].params.orderId}
            /\ running[i].pc # "sendTransaction" => takeFulfilled' = takeFulfilled

\* a call starts at the take status check if a bucket covers both chains, and
\* is over at once if none does
StartsWithBucket ==
    \A i \in 1 .. Len(running') :
        StartedNow(i) =>
            /\ mempool' = mempool
            /\ takeFulfilled' = takeFulfilled
            /\ IF hasBucket(running'[i].params.orderId)
               THEN /\ running'[i].pc = "getTakeOrderStatus"
                    /\ running'[i].sendCalls = 0
                    /\ running'[i].txSent = 0
               ELSE /\ running'[i].outcome = "NoReserveCoverage"
                    /\ FailedUntouched(running'[i])

\* getGiveOrderStatus returns a status other than Created
FoundGiveStatus(i) ==
    /\ running[i].pc = "getGiveOrderStatus"
    /\ \E status \in GiveOrderStatuses \ {"Created", "throw"} :
          State' = giveOrderStatusStep(State, i, status)

NotCreatedDrops ==
    \A i \in 1 .. Len(running) :
        FoundGiveStatus(i) =>
            /\ running'[i].outcome = "NotCreatedOnSource"
            /\ FailedUntouched(running'[i])
            /\ mempool' = mempool
            /\ takeFulfilled' = takeFulfilled

\* where a call that has sent, or is sending, a fulfill transaction stands
AfterGates ==
    \A i \in 1 .. Len(running) :
        LET a == running[i]
        IN  /\ a.sendCalls > 0 =>
                  /\ hasBucket(a.params.orderId)
                  /\ a.built
                  /\ ~a.deferred \/ a.outcome = "FulfillSendFailed"
                  /\ a.pc \in {"sendTransaction", "waitIsOrderFulfilled",
                               "unlockOrder", "end"}
            /\ a.txSent > 0 => a.sendCalls = 1
            /\ a.outcome \in {"NoReserveCoverage", "NotCreatedOnSource"} =>
                  FailedUntouched(a)

\* C12: processOrder sends a fulfill transaction only in an attempt that has
\* found, in this order, a bucket covering the give and the take chain, a
\* take-side status of NotSet or unknown, a give-side status of Created, the
\* order profitable and the reserve balance at least the required amount; an
\* attempt for an order with no covering bucket, or whose give-side status is
\* not Created, ends without fulfilling it and without putting it in the
\* mempool.
C12_SendOnlyAfterGates ==
    /\ [][GatesInOrder /\ SendsAtSend /\ StartsWithBucket /\ NotCreatedDrops]_vars
    /\ [](AfterGates)

\* a fulfill transaction was sent for an ArchivalCreated order when the
\* balance was exactly the required amount
C12_Witness ==
    \E i \in 1 .. Len(running) :
        /\ running[i].pc = "waitIsOrderFulfilled"
        /\ running[i].txSent = 1
        /\ running[i].params.type = "ArchivalCreated"
        /\ takeFulfilled = {running[i].params.orderId}

\* the ways processOrder ends: it returns after the hand-over or after a
\* deferral to the mempool, or it throws
Returns == {"Unlocked", "Unprofitable", "InsufficientReserve", "FulfillSendFailed"}

Throws ==
    {"NoReserveCoverage", "AlreadyFulfilled", "NotCreatedOnSource",
     "FulfillmentNotObserved", "RpcError"}

\* the lock is set exactly while a processOrder call is running or has ended
\* with the continuation of tryProcess still to run
LockMeansActive ==
    /\ isLocked <=> Len(running) = 1
    /\ Len(running) <= 1
    /\ \A i \in 1 .. Len(running) :
          running[i].pc = "end" <=> running[i].outcome \in Returns \cup Throws

\* the continuation of tryProcess: the lock is cleared, and the processor is
\* idle if the queues are empty and at work on the next queued order if not
GoesOn ==
    IF EarliestQueued = 0
    THEN ~isLocked' /\ running' = <<>>
    ELSE /\ isLocked'
         /\ Len(running') = 1
         /\ running'[1].params = incomingOrdersMap[EarliestQueued]
         /\ running'[1].sendCalls = 0
         /\ running'[1].pc = "end" <=> ~hasBucket(EarliestQueued)

CompletionGoesOn ==
    \A outcome \in Returns \cup Throws : \A i \in 1 .. Len(running) :
        (running[i].pc = "end" /\ running[i].outcome = outcome /\ Resume(i))
            => GoesOn

\* an order that arrives when the processor is idle is processed at once
IdleArrivalStarts ==
    \A params \in FeedEvents :
        (/\ params.type \in CreatedStatuses
         /\ ~isLocked
         /\ feedCount' = feedCount + 1
         /\ Install(process(State, params)))
        => /\ isLocked'
           /\ Len(running') = 1
           /\ running'[1].params = params

\* C13: however processOrder ends for an order (hand-over to the unlocker,
\* deferral to the mempool, or a raised error), the continuation clears
\* isLocked and goes on with the next queued order, and a later event finds
\* the processor ready; isLocked is never set without a processOrder call of
\* which tryProcess awaits the end, so no order's error stops the processor.
C13_ErrorsConfined ==
    /\ [](LockMeansActive)
    /\ [][CompletionGoesOn /\ IdleArrivalStarts]_vars
    /\ [](script # <<>> /\ feedCount = Len(script) /\ ~isLocked =>
            Len(startLog) = Len(script))

\* the five orders of the scripted feed were all processed although every
\* attempt ended in a raised error (none was fulfilled, none deferred), and
\* the processor is idle
C13_Witness ==
    /\ script = PriorityScript
    /\ Len(startLog) = Len(script)
    /\ ~isLocked
    /\ running = <<>>
    /\ takeFulfilled = {}
    /\ mempool = <<>>

\* a poll of the wait of running[i] returns in this step
Polled(i, fulfilled) ==
    /\ running[i].pc = "waitIsOrderFulfilled"
    /\ State' = waitIsOrderFulfilledStep(State, i, fulfilled)

\* nothing reaches the BatchUnlocker in this step
UnlockerUntouched ==
    /\ batches' = batches
    /\ unlockSends' = unlockSends
    /\ handedLog' = handedLog
    /\ unlockTxLog' = unlockTxLog

\* a poll that reports Fulfilled ends the wait with the hand-over; one that
\* does not is followed by another poll while fewer than limit iterations
\* were made, and raises FulfillmentNotObserved otherwise
WaitBounded ==
    \A i \in 1 .. Len(running) :
        LET a == running[i]
        IN  /\ Polled(i, TRUE) =>
                  /\ running'[i].pc = "unlockOrder"
                  /\ running'[i].handed
                  /\ handedLog' =
                        [handedLog EXCEPT ![giveChainId(a.params.orderId)] =
                            Append(@, a.params.orderId)]
            /\ (Polled(i, FALSE) /\ a.iteration < limit) =>
                  /\ running' = [running EXCEPT ![i].iteration = a.iteration + 1]
                  /\ UnlockerUntouched
            /\ (Polled(i, FALSE) /\ a.iteration >= limit) =>
                  /\ running' = [running EXCEPT ![i].pc = "end",
                                     ![i].outcome = "FulfillmentNotObserved"]
                  /\ UnlockerUntouched
                  /\ mempool' = mempool
            /\ (a.outcome = "FulfillmentNotObserved" /\ Resume(i)) => GoesOn

\* the number of iterations never exceeds limit, the wait follows a fulfill
\* transaction that was sent, and an attempt that gave up has handed nothing over
WaitInv ==
    \A i \in 1 .. Len(running) :
        LET a == running[i]
        IN  /\ a.iteration <= limit
            /\ a.pc = "waitIsOrderFulfilled" => a.txSent = 1 /\ ~a.handed
            /\ a.iteration > 0 => a.txSent = 1
            /\ a.outcome = "FulfillmentNotObserved" =>
                  /\ a.pc = "end"
                  /\ a.iteration = limit
                  /\ a.txSent = 1
                  /\ ~a.handed
                  /\ ~a.deferred

\* C14: the wait that follows a successful fulfill send ends after at most
\* limit iterations: with the hand-over as soon as a poll reports Fulfilled,
\* and with FulfillmentNotObserved when the limit is reached, in which case
\* the order is not handed to the BatchUnlocker by this attempt and the
\* processor goes on with the next order.
C14_WaitTerminates ==
    /\ [][WaitBounded]_vars
    /\ [](WaitInv)

\* the wait gave up on an order while another order was queued, and nothing
\* was ever handed to the BatchUnlocker
C14_Witness ==
    \E i \in 1 .. Len(running) :
        /\ running[i].outcome = "FulfillmentNotObserved"
        /\ running[i].iteration = limit
        /\ running[i].params.orderId \in takeFulfilled
        /\ priorityQueue # <<>>
        /\ \A c \in GiveChains : handedLog[c] = <<>>

InPrimary(orderId) == orderId \in Range(priorityQueue)

\* the step is the continuation of tryProcess after a processOrder call
Completion == \E i \in At("end") : Resume(i)

\* the step is process(params) for a Cancelled or Fulfilled event of the order
RemovedByEvent(orderId) ==
    \E type \in {"Cancelled", "Fulfilled"} :
        /\ feedCount' = feedCount + 1
        /\ State' = process(State, [orderId |-> orderId, type |-> type, info |-> 0])

\* an orderId leaves the queues only by being picked and passed to
\* processOrder with its stored context, or by a Cancelled / Fulfilled event
LeavesByPickOrEvent ==
    \A orderId \in OrderIds :
        (Queued(orderId) /\ ~Queued(orderId)') =>
            \/ /\ Completion
               /\ orderId = EarliestQueued
               /\ Len(running') = 1
               /\ running'[1].params = incomingOrdersMap[orderId]
            \/ RemovedByEvent(orderId)

\* every completion picks the next order, and leaves the processor idle only
\* when both queues are empty
KeepsPicking ==
    Completion =>
        IF EarliestQueued = 0
        THEN ~isLocked' /\ priorityQueue' = <<>> /\ queue' = <<>>
        ELSE /\ isLocked'
             /\ EarliestQueued \notin Range(priorityQueue') \cup Range(queue')
             /\ Len(priorityQueue') + Len(queue') < Len(priorityQueue) + Len(queue)

\* an idle processor has empty queues, and every queued orderId has a context
QueuesEmptyWhenIdle ==
    /\ ~isLocked => priorityQueue = <<>> /\ queue = <<>>
    /\ \A orderId \in OrderIds :
          Queued(orderId) <=> orderId \in DOMAIN incomingOrdersMap

\* the order of the scripted feed that arrived twice while another order was
\* in flight was picked after both arrivals
PickedFromQueue ==
    /\ script \in DuplicateScripts
    /\ Len(startLog) = 2
    /\ startLog[2].fed = Len(script)
    /\ startLog[2].params.orderId = script[Len(script)].orderId

\* C15 as stated: every orderId enqueued in primary or secondary while the
\* processor is busy is eventually picked and passed to processOrder, unless
\* a Cancelled or Fulfilled event removes it first, given that every
\* processOrder call ends; after each completion the processor keeps picking
\* until both queues are empty.
C15_QueuedEventuallyPicked ==
    /\ [](QueuesEmptyWhenIdle)
    /\ [][LeavesByPickOrEvent /\ KeepsPicking]_vars
    /\ \A orderId \in OrderIds : Queued(orderId) ~> ~Queued(orderId)

\* C15 amended: as C15, with the eventual pick for the orderIds in primary; an
\* orderId in secondary is picked by the first completion that finds primary
\* empty.
C15_PrimaryEventuallyPicked ==
    /\ [](QueuesEmptyWhenIdle)
    /\ [][LeavesByPickOrEvent /\ KeepsPicking]_vars
    /\ \A orderId \in OrderIds : InPrimary(orderId) ~> ~InPrimary(orderId)

C15_Witness ==
    /\ PickedFromQueue
    /\ script = Duplicate("Created", "Created")
    /\ running # <<>>
    /\ running[1].params = script[Len(script)]

\* the events handed to the processor, as arrival numbers in hand-over order
HandedSeqs ==
    LET handed == SelectSeq(executorLog, LAMBDA e : e.result = "processed")
    IN  [k \in 1 .. Len(handed) |-> handed[k].seq]

\* the processor receives the events in the order the feed delivered them
HandedInArrivalOrder ==
    \A j, k \in 1 .. Len(HandedSeqs) : j < k => HandedSeqs[j] < HandedSeqs[k]

\* executeOrder hands the event of executing[k] to a busy processor
BusyHandOver(k) ==
    /\ executing[k].pending = {}
    /\ every(orderFilters(executing[k].params.orderId))
    /\ isLocked
    /\ executing' = RemoveAt(executing, k)
    /\ State' = executeOrderResume(State, executing[k].params)

\* the event goes behind the entries its queue holds
BusyHandOverAppends ==
    \A k \in 1 .. Len(executing) :
        BusyHandOver(k) =>
            LET params == executing[k].params
            IN  IF params.type = "Created"
                THEN /\ IsPrefix(priorityQueue, priorityQueue')
                     /\ params.orderId \in Range(priorityQueue')
                     /\ queue' = queue
                ELSE /\ IsPrefix(queue, queue')
                     /\ params.orderId \in Range(queue')
                     /\ priorityQueue' = priorityQueue

\* C16: two events of the feed for the destination chain are handed to its
\* processor in the order in which they arrived, whatever their statuses
\* (Created / ArchivalCreated events await the filters, the others skip
\* them), and an event handed to a busy processor goes to the end of its
\* queue.
C16_ArrivalOrder ==
    /\ [](HandedInArrivalOrder)
    /\ [][BusyHandOverAppends]_vars

\* the step is process(params) for an event of the feed
Handles(params) ==
    /\ feedCount' = feedCount + 1
    /\ State' = process(State, params)

Event(orderId, type) == [orderId |-> orderId, type |-> type, info |-> 0]

\* after the step the processor holds nothing of the order outside the
\* BatchUnlocker, and what it holds of the other orders is as before
Forgotten(orderId) ==
    /\ priorityQueue' = SetDelete(priorityQueue, orderId)
    /\ queue' = SetDelete(queue, orderId)
    /\ incomingOrdersMap' = MapDelete(incomingOrdersMap, orderId)
    /\ mempool' = mempoolDelete(mempool, orderId)
    /\ orderId \notin Range(priorityQueue') \cup Range(queue')
    /\ orderId \notin DOMAIN incomingOrdersMap'
    /\ orderId \notin mempoolKeys(mempool')

\* the step hands the order, and nothing else, to the BatchUnlocker
Forwarded(orderId) ==
    /\ handedLog' =
          [handedLog EXCEPT ![giveChainId(orderId)] = Append(@, orderId)]
    /\ \/ batches' = [batches EXCEPT ![giveChainId(orderId)] = Append(@, orderId)]
       \/ Submits /\ orderId \in Range(Submitted.ids)

ForgetsOnEvent ==
    \A orderId \in OrderIds :
        /\ Handles(Event(orderId, "Cancelled")) =>
              Forgotten(orderId) /\ UnlockerUntouched
        /\ Handles(Event(orderId, "Fulfilled")) =>
              Forgotten(orderId) /\ Forwarded(orderId)

\* C17: after the processor has handled a Cancelled or a Fulfilled event of
\* an orderId, idle or busy, the orderId is in neither queue, has no stored
\* context and is not in the mempool; the Fulfilled event also hands the
\* order to the BatchUnlocker, the Cancelled event hands nothing to it.
C17_ForgetsOnEvent == [][ForgetsOnEvent]_vars

\* an order that its attempt had deferred to the mempool is gone from the
\* mempool before the attempt is over, and was handed to the BatchUnlocker by
\* an event: a Fulfilled event has arrived for it
C17_Witness ==
    \E i \in 1 .. Len(running) :
        LET orderId == running[i].params.orderId
        IN  /\ running[i].deferred
            /\ ~running[i].handed
            /\ orderId \notin mempoolKeys(mempool)
            /\ ~Queued(orderId)
            /\ handedLog[giveChainId(orderId)] = <<orderId>>

\* processOrder is at work on the order
InFlight(orderId) ==
    \E i \in 1 .. Len(running) :
        running[i].params.orderId = orderId /\ running[i].pc # "end"

\* a Cancelled or Fulfilled event arrives for the order in flight
ArrivesInFlight(params) ==
    /\ params.type \in {"Cancelled", "Fulfilled"}
    /\ InFlight(params.orderId)
    /\ Handles(params)

\* the processOrder call and the lock are as they were
FlightGoesOn ==
    /\ running' = running
    /\ isLocked
    /\ isLocked'
    /\ takeFulfilled' = takeFulfilled

\* the remaining steps of a processOrder call do what they would have done
\* had the queues, the stored context and the mempool not lost the order
StepsRegardless ==
    \A i \in 1 .. Len(running) :
        LET a == running[i]
            s1 == forget(State, a.params.orderId)
            Same(t1, t0) ==
                t1.running = t0.running /\ t1.takeFulfilled = t0.takeFulfilled
        IN  /\ a.pc = "getTakeOrderStatus" =>
                  \A status \in TakeOrderStatuses :
                      Same(takeOrderStatusStep(s1, i, status),
                           takeOrderStatusStep(State, i, status))
            /\ a.pc = "getGiveOrderStatus" =>
                  \A status \in GiveOrderStatuses :
                      Same(giveOrderStatusStep(s1, i, status),
                           giveOrderStatusStep(State, i, status))
            /\ a.pc = "calculateExpectedTakeAmount" =>
                  \A result \in {"profitable", "unprofitable", "throw"} :
                      Same(calculateStep(s1, i, result), calculateStep(State, i, result))
            /\ a.pc = "getBalance" =>
                  \A balance \in Balances \cup {-1} :
                      Same(getBalanceStep(s1, i, balance), getBalanceStep(State, i, balance))
            /\ a.pc = "createOrderFullfillTx" =>
                  \A ok \in BOOLEAN :
                      Same(createOrderFullfillTxStep(s1, i, ok),
                           createOrderFullfillTxStep(State, i, ok))
            /\ a.pc = "sendTransaction" =>
                  \A ok \in BOOLEAN :
                      Same(sendTransactionStep(s1, i, ok), sendTransactionStep(State, i, ok))
            /\ a.pc = "waitIsOrderFulfilled" =>
                  \A fulfilled \in BOOLEAN :
                      Same(waitIsOrderFulfilledStep(s1, i, fulfilled),
                           waitIsOrderFulfilledStep(State, i, fulfilled))

\* the event changes nothing but the queues, the stored context and the mempool
OnlyForgets ==
    \A params \in FeedEvents :
        ArrivesInFlight(params) =>
            FlightGoesOn /\ Forgotten(params.orderId) /\ UnlockerUntouched

\* as OnlyForgets, with the hand-over that a Fulfilled event makes
ForgetsAndForwards ==
    \A params \in FeedEvents :
        ArrivesInFlight(params) =>
            /\ FlightGoesOn
            /\ Forgotten(params.orderId)
            /\ IF params.type = "Fulfilled"
               THEN Forwarded(params.orderId)
               ELSE UnlockerUntouched

\* C18 as stated: a Fulfilled or Cancelled event for the orderId in flight
\* does not abort processOrder: isLocked stays set, the call goes through its
\* remaining steps as it would have, and the event only removes the orderId
\* from the queues, the stored context and the mempool.
C18_InFlightOnlyForgets ==
    /\ [][OnlyForgets]_vars
    /\ [](StepsRegardless)

\* C18 amended: as C18, but a Fulfilled event also hands the order to the
\* BatchUnlocker.
C18_InFlightNotAborted ==
    /\ [][ForgetsAndForwards]_vars
    /\ [](StepsRegardless)

\* the order of the scripted feed was cancelled after its only processOrder
\* call had started, and that call has built the fulfill transaction and is
\* sending it
C18_Witness ==
    /\ script = InFlightScript("Cancelled")
    /\ feedCount = Len(script)
    /\ Len(startLog) = 1
    /\ Len(running) = 1
    /\ running[1].params = script[1]
    /\ running[1].pc = "sendTransaction"
    /\ isLocked

\* the step leaves the queues, the stored contexts, the mempool, the lock and
\* the processOrder calls as they were
ProcessorUntouched ==
    /\ priorityQueue' = priorityQueue
    /\ queue' = queue
    /\ incomingOrdersMap' = incomingOrdersMap
    /\ mempool' = mempool
    /\ isLocked' = isLocked
    /\ running' = running
    /\ takeFulfilled' = takeFulfilled

ArchivalForwardsOtherSkips ==
    \A params \in FeedEvents :
        /\ params.type = "ArchivalFulfilled" /\ Handles(params) =>
              Forwarded(params.orderId) /\ ProcessorUntouched
        /\ params.type = "Other" /\ Handles(params) =>
              ProcessorUntouched /\ UnlockerUntouched /\ State' = State

\* C19: an ArchivalFulfilled event forwards (orderId, order) to the
\* BatchUnlocker and leaves priorityQueue, queue, incomingOrdersMap, the
\* mempool and isLocked unchanged; an event of status Other leaves the whole
\* processor state unchanged, the BatchUnlocker's batches included.
C19_ArchivalForwardsOtherSkips == [][ArchivalForwardsOtherSkips]_vars

\* order 2 of the scripted feed is still queued behind order 1, which is
\* still in flight, after its ArchivalFulfilled event handed it to the
\* BatchUnlocker and its Other event came
C19_Witness ==
    /\ script = ArchivalScript
    /\ feedCount = Len(script)
    /\ isLocked
    /\ Len(running) = 1
    /\ running[1].params = script[1]
    /\ queue = <<2>>
    /\ 2 \in DOMAIN incomingOrdersMap
    /\ handedLog[giveChainId(2)] = <<2>>
    /\ batches[giveChainId(2)] = <<2>>

\* the orders that the Executor's filters or the processor have got hold of
OrdersTakenUp ==
    {executing[k].params.orderId : k \in 1 .. Len(executing)}
        \cup filteredOff
        \cup {running[i].params.orderId : i \in 1 .. Len(running)}
        \cup Range(priorityQueue) \cup Range(queue)
        \cup DOMAIN incomingOrdersMap
        \cup mempoolKeys(mempool)
        \cup UNION {Range(handedLog[c]) : c \in DOMAIN handedLog}
        \cup UNION {Range(batches[c]) : c \in DOMAIN batches}

\* no filter and no processor ever sees an order of a chain that is not
\* configured
UnconfiguredNeverTakenUp ==
    \A orderId \in FeedOrderIds :
        (\/ orderGiveChainId(orderId) \notin ConfiguredChains
         \/ orderTakeChainId(orderId) \notin ConfiguredChains) =>
            orderId \notin OrdersTakenUp

\* the Executor receives an event and drops it for its chain
DropsNow ==
    /\ feedCount' = feedCount + 1
    /\ executorLog' = Append(executorLog, Logged(feedCount', "notConfigured"))

\* a dropped event changes nothing but the Executor's log
DropChangesNothing ==
    DropsNow => State' = State /\ executing' = executing /\ filteredOff' = filteredOff

\* every event the feed delivered was dropped, is with the filters, was
\* rejected by them or was handed to the processor: the Executor took each
\* of them and returned
EveryEventTaken ==
    /\ Len(executorLog) + Len(executing) <= feedCount
    /\ \A n \in 1 .. Len(executorLog) :
          /\ executorLog[n].seq \in 1 .. feedCount
          /\ \A m \in 1 .. Len(executorLog) :
                executorLog[m].seq = executorLog[n].seq => m = n

\* C20: executeOrder drops an event whose give chain or take chain is not
\* among the configured chains, whatever its status: no filter and no
\* processor is invoked for it, nothing but the log changes, and the feed
\* goes on delivering.
C20_UnconfiguredDropped ==
    /\ [](UnconfiguredNeverTakenUp)
    /\ [](EveryEventTaken)
    /\ [][DropChangesNothing]_vars

\* the first event was dropped for its chain and the next one was handed to
\* the processor, which passed its order on to the BatchUnlocker
C20_Witness ==
    /\ executorLog = <<Logged(1, "notConfigured"), Logged(2, "processed")>>
    /\ \E c \in DOMAIN handedLog : Len(handedLog[c]) = 1

\* the statuses for which executeOrder accepts the order as is
TerminalStatuses == {"Fulfilled", "ArchivalFulfilled", "Cancelled"}

\* the filters wait for Created and ArchivalCreated events only
OnlyCreatedFiltered ==
    \A k \in 1 .. Len(executing) : executing[k].params.type \in CreatedStatuses

\* the event that the Executor receives in this step is neither dropped
\* for its chain nor held for the filters
AcceptedAsIs ==
    /\ feedCount' = feedCount + 1
    /\ Len(executing') = Len(executing)
    /\ ~DropsNow

\* an event accepted as is reaches the processor in the same step, and no
\* filter result is looked at
ForwardedAtOnce ==
    AcceptedAsIs =>
        /\ executing' = executing
        /\ filteredOff' = filteredOff
        /\ executorLog' = Append(executorLog, Logged(feedCount', "processed"))
        /\ \E params \in IncomingOrder :
              /\ params.type \notin CreatedStatuses
              /\ params.orderId \in OrderIds
              /\ State' = process(State, params)

\* every event of a terminal status and of configured chains can be
\* received in every state in which the feed delivers, and is then forwarded
TerminalForwardable ==
    (script = <<>> /\ feedCount < MaxFeed) =>
        \A orderId \in OrderIds, type \in TerminalStatuses :
            ENABLED (/\ Execute
                     /\ executing' = executing
                     /\ State' = process(State, Event(orderId, type))
                     /\ executorLog' =
                           Append(executorLog, Logged(feedCount + 1, "processed")))

\* C21: for Fulfilled, ArchivalFulfilled and Cancelled events of configured
\* chains the Executor runs no filter and always forwards the event to the
\* take chain's processor, also when a filter would reject the order.
C21_TerminalSkipsFilters ==
    /\ [](OnlyCreatedFiltered)
    /\ [](TerminalForwardable)
    /\ [][ForwardedAtOnce]_vars

\* order 3, which the take chain's dstFilter rejects, reached the
\* BatchUnlocker through the first event of the feed
C21_Witness ==
    /\ ~every(orderFilters(3))
    /\ executorLog = <<Logged(1, "processed")>>
    /\ executing = <<>>
    /\ handedLog[giveChainId(3)] = <<3>>
    /\ 3 \notin filteredOff

\* the processor of the take chain holds no order and has sent no fulfill
\* transaction
ProcessorIdleAndEmpty ==
    /\ ~isLocked
    /\ running = <<>>
    /\ priorityQueue = <<>>
    /\ queue = <<>>
    /\ incomingOrdersMap = EmptyMap
    /\ mempool = <<>>
    /\ takeFulfilled = {}

\* the filter list of a disabled take chain holds the always-false filter
DisabledHasFilter ==
    disabled =>
        /\ DisableFulfill \in Range(dstFilters)
        /\ \A orderId \in OrderIds :
              /\ DisableFulfill \in Range(listOrderFilters(orderId))
              /\ ~every(orderFilters(orderId))

\* a Created or ArchivalCreated event is received, or comes back from the
\* filters
CreatedStep ==
    \/ feedCount' = feedCount + 1 /\ Len(executing') = Len(executing) + 1
    \/ Len(executing') = Len(executing) - 1

\* with the take chain disabled an event that comes back from the filters is
\* dropped, and neither its arrival nor its drop changes the processor or
\* the BatchUnlocker
DisabledDrops ==
    (disabled /\ CreatedStep) =>
        /\ State' = State
        /\ UnlockerUntouched
        /\ executorLog' = executorLog
        /\ Len(executing') < Len(executing) =>
              \E k \in 1 .. Len(executing) :
                  /\ executing' = RemoveAt(executing, k)
                  /\ filteredOff' = filteredOff \cup {executing[k].params.orderId}

\* C22: when the take chain is disabled, disableFulfill is in its filter
\* list, every Created or ArchivalCreated event for it is dropped at the
\* filters, the processor's isLocked, queues, stored contexts, mempool and
\* batches are left as they were, and no fulfill transaction is sent.
C22_DisabledDropsCreated ==
    /\ [](DisabledHasFilter)
    /\ [](disabled => ProcessorIdleAndEmpty)
    /\ [][DisabledDrops]_vars

\* with the take chain disabled, orders 1 and 2 were dropped at the filters;
\* order 1 passes every other filter of the configuration
C22_Witness ==
    /\ disabled
    /\ \A k \in DOMAIN listOrderFilters(1) :
          listOrderFilters(1)[k] # DisableFulfill => orderFilters(1)[k]
    /\ filteredOff = {1, 2}
    /\ executing = <<>>
    /\ feedCount = 2

\* the thresholds of the definition, the hard cap of its chain
thresholdsNow == definition.requiredConfirmationsThresholds

hardCap == BLOCK_CONFIRMATIONS_HARD_CAPS[definition.chain]

SortedByUsd ==
    \A i \in DOMAIN thresholdsNow : \A j \in DOMAIN thresholdsNow :
        i < j => thresholdsNow[i].thresholdAmountInUSD
                     <= thresholdsNow[j].thresholdAmountInUSD

\* each minBlockConfirmations is above the one before it (above 0 for the
\* first) and below the hard cap
StrictlyRising ==
    \A i \in DOMAIN thresholdsNow :
        /\ thresholdsNow[i].minBlockConfirmations >
              (IF i = 1 THEN 0 ELSE thresholdsNow[i - 1].minBlockConfirmations)
        /\ thresholdsNow[i].minBlockConfirmations < hardCap

\* the thresholds are accepted exactly when, sorted, they rise strictly
\* below the hard cap, and the ranges then follow the thresholds
AcceptedIffRising ==
    usdAmountConfirmations.called =>
        /\ SortedByUsd
        /\ ~usdAmountConfirmations.threw <=> StrictlyRising
        /\ ~usdAmountConfirmations.threw =>
              /\ Len(usdAmountConfirmations.ranges) = Len(thresholdsNow)
              /\ \A i \in DOMAIN thresholdsNow :
                    usdAmountConfirmations.ranges[i].minBlockConfirmations
                        = thresholdsNow[i].minBlockConfirmations

\* confirmation monotonicity of an accepted definition
Monotonic ==
    (usdAmountConfirmations.called /\ ~usdAmountConfirmations.threw) =>
        \A t1 \in Range(thresholdsNow) : \A t2 \in Range(thresholdsNow) :
            t1.thresholdAmountInUSD < t2.thresholdAmountInUSD =>
                /\ t1.minBlockConfirmations < t2.minBlockConfirmations
                /\ t2.minBlockConfirmations < hardCap

\* the Polygon thresholds [{100, 300}, {1000, 256}]
PolygonExample ==
    /\ definition.chain = "Polygon"
    /\ Len(thresholdsNow) = 2
    /\ Range(thresholdsNow) =
          {[thresholdAmountInUSD |-> 100, minBlockConfirmations |-> 300],
           [thresholdAmountInUSD |-> 1000, minBlockConfirmations |-> 256]}

PolygonExampleRejected ==
    (usdAmountConfirmations.called /\ PolygonExample) => usdAmountConfirmations.threw

\* C23: getConfirmationRanges accepts a chain's thresholds only if, sorted by
\* thresholdAmountInUSD ascending, every minBlockConfirmations is strictly
\* greater than the previous one (than 0 for the first) and strictly less
\* than the chain's hard cap, and throws otherwise; so in an accepted
\* definition t1.usd < t2.usd implies t1.minBlockConfirmations <
\* t2.minBlockConfirmations < hard cap, and the Polygon thresholds
\* [{100, 300}, {1000, 256}] are rejected.
C23_ConfirmationsMonotonic ==
    AcceptedIffRising /\ Monotonic /\ PolygonExampleRejected /\ hardCap \in 12 .. 256

\* getConfirmationRanges threw for the Polygon thresholds of the example
C23_Witness ==
    /\ usdAmountConfirmations.called
    /\ PolygonExample
    /\ usdAmountConfirmations.threw

\* the processor was constructed and runs
Constructed == thisParams.constructed /\ ~thisParams.threw

\* the argument has no batchUnlockSize, or its batchUnlockSize is undefined
NotGiven == batchUnlockSizeOf(constructorParams) = Undefined

\* a batchUnlockSize below 1 or above 10 makes the constructor throw, and a
\* batchUnlockSize from 1 to 10 is accepted and used
RangeChecked ==
    thisParams.constructed =>
        \A n \in -1 .. 12 :
            batchUnlockSizeOf(constructorParams) = Num(n) =>
                IF n < 1 \/ n > 10
                THEN thisParams.threw
                ELSE ~thisParams.threw /\ thisParams.params.batchUnlockSize = Num(n)

\* C24: a batchUnlockSize below 1 or above 10 fails at construction, every
\* value from 1 to 10 is accepted, the processor uses 10 when batchUnlockSize
\* is not given, and so every running BatchUnlocker has a batch size in
\* [1, 10].
C24_BatchUnlockSizeInRange ==
    /\ RangeChecked
    /\ (thisParams.constructed /\ NotGiven) =>
          ~thisParams.threw /\ thisParams.params.batchUnlockSize = Num(10)
    /\ Constructed =>
          \E n \in 1 .. 10 : thisParams.params.batchUnlockSize = Num(n)

\* every step of init has completed for every chain of the configuration
AllStepsDone ==
    \A chain \in 1 .. Len(configChains) :
        \A index \in 1 .. Len(initSteps(configChains[chain])) :
            <<configChains[chain], initSteps(configChains[chain])[index]>>
                \in Range(initLog)

\* nothing was received from the feed, no order is with the filters or the
\* processor, and nothing was sent
NothingDispatched ==
    /\ feedCount = 0
    /\ executing = <<>>
    /\ executorLog = <<>>
    /\ filteredOff = {}
    /\ ProcessorIdleAndEmpty
    /\ unlockSends = <<>>
    /\ unlockTxLog = <<>>
    /\ \A c \in DOMAIN handedLog : handedLog[c] = <<>>

\* a failed init stays failed
FailedStays == initPc.step = "failed" => initPc' = initPc /\ ~isInitialized'

\* C25: the Executor delivers feed events only after init has completed, for
\* every configured chain, the supported-chain check, the address lookup
\* table initialization (Solana), the processor initialization with its
\* approvals and the confirmation threshold validation; if one of them
\* fails no event is ever dispatched and no fulfill transaction is sent.
C25_FeedAfterInit ==
    /\ [](isInitialized => AllStepsDone)
    /\ [](~isInitialized => NothingDispatched)
    /\ [](initPc.step = "failed" => ~isInitialized)
    /\ [][FailedStays]_vars

\* init has completed, and an order from the feed was fulfilled
C25_Witness ==
    /\ isInitialized
    /\ Len(initLog) = 17
    /\ feedCount > 0
    /\ takeFulfilled # {}

\* the take token of the order is one of the approved tokens, byte for byte
ByteEqualApproved(orderId) ==
    \E k \in DOMAIN approvedTokensInBuffer :
        takeTokenAddress(orderId) = approvedTokensInBuffer[k]

\* the StrictProcessor has sent a transaction in this call
SentAny(a) == a.fulfillTx # "none" \/ a.unlockTxs # <<>>

\* transactions are sent for approved take tokens only, and a call for
\* another token has ended at once
OnlyApprovedSent ==
    \A i \in 1 .. Len(strictCalls) :
        LET a == strictCalls[i]
        IN  /\ SentAny(a) => ByteEqualApproved(a.orderId)
            /\ ~ByteEqualApproved(a.orderId) =>
                  a.pc = "end" /\ a.outcome = "notAllowed" /\ ~SentAny(a)
            /\ ByteEqualApproved(a.orderId) => a.outcome # "notAllowed"

\* the StrictProcessor leaves the mempool, the queues and the BatchUnlocker
\* alone
NothingDeferred ==
    /\ mempool = <<>>
    /\ priorityQueue = <<>>
    /\ queue = <<>>
    /\ incomingOrdersMap = EmptyMap
    /\ \A c \in DOMAIN batches : batches[c] = <<>>

\* no step of process is a profitability test: the call of an approved order
\* goes from await to await and ends only by an error, by a failed send or
\* after the unlock
NoGate ==
    \A i \in 1 .. Len(strictCalls) :
        /\ strictCalls[i].pc \in
              {"getPrice", "getTakerFlowCost", "getAmountToSend", "fulfillOrder",
               "sendFulfill", "getTakeOrderStatus", "poll", "sendUnlockOrder",
               "sendUnlock", "end"}
        /\ strictCalls[i].outcome \in
              {"running", "notAllowed", "threw", "OrderIsFulfilled",
               "fulfillFailed", "unlocked"}

\* C26: the StrictProcessor sends a fulfill transaction, and an unlock
\* transaction, for an order only if order.take.token is byte-equal to one
\* of its approved tokens; for another take token the order is dropped with
\* no transaction sent; it never defers an order to a mempool and applies no
\* profitability test.
C26_StrictOnlyApproved == OnlyApprovedSent /\ NothingDeferred /\ NoGate

\* order 3, whose take token starts like an approved token, was dropped, and
\* order 1 was fulfilled and unlocked
C26_Witness ==
    /\ Len(strictCalls) = 2
    /\ strictCalls[1].orderId = 3
    /\ strictCalls[1].outcome = "notAllowed"
    /\ strictCalls[2].orderId = 1
    /\ strictCalls[2].outcome = "unlocked"
    /\ strictCalls[2].fulfillTx = "sent"

\* the fulfill transaction of the call was sent and, on Solana, the order
\* was seen Fulfilled
FulfilledAndSeen(a) ==
    a.fulfillTx = "sent" /\ (takeChainIsSolana(a.orderId) => a.observed)

\* a call sends at most one unlock transaction, for its own order alone and
\* only after its fulfill transaction was sent and seen
UnlockAfterFulfill ==
    \A i \in 1 .. Len(strictCalls) :
        LET a == strictCalls[i]
        IN  /\ Len(a.unlockTxs) <= 1
            /\ a.unlockTxs # <<>> =>
                  /\ FulfilledAndSeen(a)
                  /\ a.unlockTxs[1].ids = <<a.orderId>>
                  /\ a.pc = "end"
            /\ a.fulfillTx = "failed" =>
                  a.unlockTxs = <<>> /\ a.outcome = "fulfillFailed"

\* a call that has sent and seen its fulfill transaction is building or
\* sending the unlock transaction, or has ended with it sent
UnlockFollows ==
    \A i \in 1 .. Len(strictCalls) :
        LET a == strictCalls[i]
        IN  FulfilledAndSeen(a) =>
                \/ a.pc \in {"sendUnlockOrder", "sendUnlock"}
                \/ a.pc = "end" /\ Len(a.unlockTxs) = 1

\* as UnlockFollows, but the call may also have ended because the unlock
\* transaction could not be built
UnlockFollowsIfBuilt ==
    \A i \in 1 .. Len(strictCalls) :
        LET a == strictCalls[i]
        IN  FulfilledAndSeen(a) =>
                \/ a.pc \in {"sendUnlockOrder", "sendUnlock"}
                \/ a.pc = "end" /\ Len(a.unlockTxs) = 1
                \/ a.pc = "end" /\ a.unlockTxs = <<>> /\ a.outcome = "threw"

StrictInFlight == {i \in 1 .. Len(strictCalls) : strictCalls[i].pc # "end"}

\* C28: the StrictProcessor has the outer shell of the UniversalProcessor:
\* at most one order is under active processing at any time, and an order
\* that arrives while another is being processed waits.
C28_StrictSerial == Cardinality(StrictInFlight) <= 1

\* the processOrder calls that fulfilled their order and handed it to the
\* BatchUnlocker
FulfilledCalls ==
    {i \in 1 .. Len(running) :
        running[i].pc = "end" /\ running[i].outcome = "Unlocked"}

\* C29: an orderId leaves the mempool when the processor handles a Cancelled
\* or Fulfilled event for it or when the processor successfully fulfills the
\* order: after a successful fulfillment the orderId is no longer in the
\* mempool.
C29_FulfilledLeavesMempool ==
    \A i \in FulfilledCalls :
        running[i].params.orderId \notin mempoolKeys(mempool)

\* the orderIds with a stored context are the orderIds in the queues, and
\* each context is an event of its orderId
ContextIffQueued ==
    /\ DOMAIN incomingOrdersMap = Range(priorityQueue) \cup Range(queue)
    /\ \A orderId \in DOMAIN incomingOrdersMap :
          /\ incomingOrdersMap[orderId].orderId = orderId
          /\ incomingOrdersMap[orderId].type \in CreatedStatuses

\* the orderId that a completion picks has a context, which goes to
\* processOrder, and the pick takes the orderId out of both queues and out
\* of the stored contexts
PickHasContext ==
    (Completion /\ EarliestQueued # 0) =>
        /\ EarliestQueued \in DOMAIN incomingOrdersMap
        /\ Len(running') = 1
        /\ running'[1].params = incomingOrdersMap[EarliestQueued]
        /\ priorityQueue' = SetDelete(priorityQueue, EarliestQueued)
        /\ queue' = SetDelete(queue, EarliestQueued)
        /\ incomingOrdersMap' = MapDelete(incomingOrdersMap, EarliestQueued)

\* C30: in every reachable state the orderIds with an incomingOrdersMap
\* entry are the orderIds of priorityQueue and queue together: an enqueue
\* stores the latest event of the orderId, and a removal (next order picked,
\* Cancelled, Fulfilled) clears the queues and the context together, so a
\* picked orderId always has a context.
C30_ContextIffQueued ==
    /\ [](ContextIffQueued)
    /\ [][PickHasContext /\ EnqueueKeepsLatest]_vars

\* order 1 of the scripted feed was queued in primary and then in secondary
\* while another order was in flight, and was picked: its latest event is
\* being processed, and neither queue nor the stored contexts hold it
C30_Witness ==
    /\ script = Duplicate("Created", "ArchivalCreated")
    /\ feedCount = Len(script)
    /\ Len(startLog) = 2
    /\ startLog[2].fed = Len(script)
    /\ Len(running) = 1
    /\ running[1].params = script[Len(script)]
    /\ running[1].pc # "end"
    /\ priorityQueue = <<>>
    /\ queue = <<>>
    /\ incomingOrdersMap = EmptyMap

\* the processor is idle: the lock is clear and no processOrder call is active
Idle == ~isLocked /\ running = <<>>

\* an idle processor holds no order in either queue
IdleMeansEmpty == Idle => priorityQueue = <<>> /\ queue = <<>>

\* the orderIds that the step puts in a queue that did not hold them
Enqueued ==
    (Range(priorityQueue') \ Range(priorityQueue)) \cup (Range(queue') \ Range(queue))

\* an order is enqueued only while the lock is set, and the lock stays set;
\* when the step found the processor idle, it is a mempool tick that started
\* processOrder for its first order, set the lock and enqueued the later ones
EnqueuedOnlyLocked ==
    Enqueued # {} =>
        /\ isLocked'
        /\ Len(running') = 1
        /\ ~isLocked =>
              /\ running = <<>>
              /\ feedCount' = feedCount
              /\ running'[1].params.orderId \notin Enqueued
              /\ running'[1].params.orderId \in mempoolKeys(mempool)

\* a completion that finds an order queued picks it and leaves the lock set
\* with that order in processOrder; one that finds none leaves the processor
\* idle
CompletionRelocks ==
    Completion =>
        IF priorityQueue = <<>> /\ queue = <<>>
        THEN Idle' /\ priorityQueue' = <<>> /\ queue' = <<>>
        ELSE /\ isLocked'
             /\ Len(running') = 1
             /\ running'[1].params.orderId = EarliestQueued
             /\ EarliestQueued \notin Range(priorityQueue') \cup Range(queue')

\* C31: whenever the Universal processor is idle (isLocked false and no
\* processOrder active), primary and secondary are both empty: an order is
\* enqueued only while isLocked is set, and each completion picks the next
\* queued order and sets isLocked again in the same step.
C31_IdleQueuesEmpty ==
    /\ [](IdleMeansEmpty)
    /\ [][EnqueuedOnlyLocked /\ CompletionRelocks]_vars

\* the scripted feed is over: its second order was queued twice while the
\* first was in flight, was picked by the completion and processed, and the
\* processor is idle again with both queues empty
C31_Witness ==
    /\ script \in DuplicateScripts
    /\ feedCount = Len(script)
    /\ Len(startLog) = 2
    /\ startLog[2].fed = Len(script)
    /\ startLog[2].params.orderId = 1
    /\ Idle
    /\ priorityQueue = <<>>
    /\ queue = <<>>

\* the processOrder calls that have built a fulfill transaction and are at
\* `await sendTransaction(fulfillTx.tx)`
SendingFulfill == {i \in 1 .. Len(running) : running[i].pc = "sendTransaction"}

\* C32: for every orderId at most one fulfill transaction is sent
\* successfully: once a fulfill send for the orderId has succeeded, no later
\* attempt for it (duplicate feed event, remaining queue entry, mempool
\* resubmission, also after FulfillmentNotObserved) sends a fulfill
\* transaction.
C32_OneFulfillPerOrder ==
    \A i \in SendingFulfill : running[i].params.orderId \notin takeFulfilled

\* the successfully submitted unlock transactions that carry the orderId
SentCarrying(orderId) ==
    {k \in 1 .. Len(unlockTxLog) :
        unlockTxLog[k].result = "sent" /\ orderId \in Range(unlockTxLog[k].ids)}

\* no batch holds the orderId twice, neither while it fills nor when it is
\* submitted
OnceInBatches ==
    \A orderId \in OrderIds :
        /\ \A c \in GiveChains : Count(batches[c], orderId) <= 1
        /\ \A k \in 1 .. Len(unlockTxLog) : Count(unlockTxLog[k].ids, orderId) <= 1

OnceUnlocked == \A orderId \in OrderIds : Cardinality(SentCarrying(orderId)) <= 1

\* C33: every orderId appears at most once in the destination's unlock
\* batches and is carried by at most one successfully submitted unlock
\* transaction, also when processOrder hands the order over after fulfilling
\* it and a later Fulfilled or ArchivalFulfilled event hands it over again.
C33_UnlockedOnce == OnceInBatches /\ OnceUnlocked

\* the feed of the cancel scenario is over: the Cancelled event of its order
\* has been handled, and no Created or ArchivalCreated event follows
CancelHandled == script = InFlightScript("Cancelled") /\ feedCount = Len(script)

\* no processOrder call calls sendTransaction in this step
NoSendCalled ==
    \A i \in 1 .. Len(running) :
        Working(i) => running'[i].sendCalls = running[i].sendCalls

\* C34 as stated: once a Cancelled event for an orderId has been handled, the
\* orderId is never in the mempool and no fulfill transaction is sent for it
\* unless a new Created or ArchivalCreated event for it arrives, also when
\* the orderId was in flight as the Cancelled event arrived.
C34_CancelledStaysOut ==
    /\ [](CancelHandled => script[1].orderId \notin mempoolKeys(mempool))
    /\ [][CancelHandled => NoSendCalled]_vars

\* the processor holds nothing of the order: no queue entry, no stored
\* context, no mempool entry, and no processOrder call at work on it
Clear(orderId) ==
    /\ ~Queued(orderId)
    /\ orderId \notin DOMAIN incomingOrdersMap
    /\ orderId \notin mempoolKeys(mempool)
    /\ ~InFlight(orderId)

\* a Cancelled event for an order that is not in flight leaves the processor
\* with nothing of the order
CancelledIdleClears ==
    \A params \in FeedEvents :
        (/\ params.type = "Cancelled"
         /\ ~InFlight(params.orderId)
         /\ Handles(params))
        => Clear(params.orderId)'

\* an order the processor holds nothing of gets no fulfill transaction, and
\* it stays so unless the step handles a Created or ArchivalCreated event for it
StaysClear ==
    \A orderId \in OrderIds :
        Clear(orderId) =>
            /\ orderId \in takeFulfilled' <=> orderId \in takeFulfilled
            /\ \A i \in 1 .. Len(running) :
                  running[i].params.orderId = orderId =>
                      running[i].pc = "end" /\ ~Working(i)
            /\ ~Clear(orderId)' =>
                  \E params \in FeedEvents :
                      /\ params.orderId = orderId
                      /\ params.type \in CreatedStatuses
                      /\ Handles(params)

\* C34 amended: once a Cancelled event has been handled for an orderId that
\* was not in flight, the orderId is not in the mempool and no fulfill
\* transaction is sent for it until a new Created or ArchivalCreated event
\* for it arrives; a processOrder call in flight for the orderId goes on.
C34_CancelledIdleStaysOut == [][CancelledIdleClears /\ StaysClear]_vars

\* the order of the scripted feed was deferred to the mempool by its
\* processOrder call, which has ended, and the Cancelled event that followed
\* has taken it out of the mempool: the processor holds nothing of the order
C34_Witness ==
    /\ CancelHandled
    /\ Len(running) = 1
    /\ running[1].params = script[1]
    /\ running[1].pc = "end"
    /\ running[1].deferred
    /\ mempool = <<>>
    /\ Clear(script[1].orderId)

====
